---- MODULE Spec2Model ----
(***************************************************************************)
(* Intelli-Therm: predictive cabin-heater control for an electric vehicle. *)
(* A model of src/intelli_therm_model.py: the per-trip feature and target  *)
(* builders, the trip-wise train/test partitioner, the inference feature   *)
(* vector, the heater control policy and the trip simulator.               *)
(*                                                                         *)
(* Every component has its own specification (SpecPolicy, SpecSplit, ...): *)
(* its Init builds the component's input from bounded sets and its actions *)
(* are the component's operations.  The variables of the other components  *)
(* rest at their idle values.                                              *)
(*                                                                         *)
(* Numbers.  The program computes in IEEE doubles; the model computes in   *)
(* integers on fixed scales chosen so that the operations of interest are  *)
(* exact: heater power decided by the policy is kept in hundredths of a    *)
(* watt (so that the factor 0.85 is 85/100), rates of change are kept in   *)
(* hundredths of their unit.  A missing value (NaN) is the empty tuple.    *)
(***************************************************************************)
EXTENDS Integers, Sequences, FiniteSets, TLC

VARIABLES
    \* ---- Trip Simulator and Control Policy (simulate_complete_trip)
    sim_pc,                 \* "build" | "replay" | "done"
    heater_col,             \* whether the table has a heater_power_W column
    test_trip_df,           \* the replayed rows: [time_s, heater_power_W]
    high_power_threshold,   \* the threshold handed to the simulator
    predicted_loads,        \* list filled by the replay loop
    new_heater_powers,      \* list filled by the replay loop (hundredths of W)
    statuses,               \* list filled by the replay loop
    baseline_energy,        \* test_trip_df['heater_energy_J'].sum() (hundredths of J)
    optimized_energy,       \* optimized_trip_df['heater_energy_J'].sum() (hundredths of J)
    baseline_cumulative,    \* test_trip_df['cumulative_heater_energy_J'] (hundredths of J)
    optimized_cumulative,   \* optimized_trip_df['cumulative_heater_energy_J'] (hundredths of J)
    \* ---- Dataset Partitioner (prepare_data_for_modeling)
    prep_pc,                \* "build" | "done"
    prep_cols,              \* the columns of the table, of those the partitioner requires
    prep_df,                \* the table: rows [trip_id, x_null, y_null]
    prep_out,               \* what prepare_data_for_modeling returned
    \* ---- Inference feature vector (prepare_features_for_prediction)
    inf_pc,                 \* "ready" | "done"
    feature_list,           \* the feature names the model was trained on
    vehicle_data,           \* the columns of the telemetry record
    features_df,            \* the columns of the vector built: [name, value]
    \* ---- Feature Builder and Target Builder (create_rate_of_change_features,
    \*      create_lagged_features, create_target_variables)
    feat_pc,                \* "build" (between calls) | "loop" (inside a builder's trip loop)
    all_trips_df,           \* the table: before a call its argument, after it its result
    df_model,               \* the copy of its argument the running or last builder works on
    source_df,              \* the table the running or last operation was given, as it is now
    feat_op,                \* the running or last builder: "none" | "rate" | "lag" | "target"
    future_horizons,        \* the horizons of the running or last create_target_variables
    trip_ids,               \* df['trip_id'].unique() of the running or last builder
    processed_dfs,          \* the per-trip tables the loop has appended
    gen_base,               \* input generation: the regular step of a long segment
    gen_devs,               \* input generation: the irregular steps used so far
    \* ---- The pipeline (the module-level script)
    pipe_pc,                \* the block of the script to run next
    stages,                 \* the stages that have run, in order
    model,                  \* the name model: "undefined" | "None" | "model"
    test_trip_id,           \* the trip the simulator replays (0 before it is chosen)
    percentage_saved,       \* the name percentage_saved: "undefined" | "None" | "value"
    \* ---- Feature selection of the Partitioner (prepare_data_for_modeling, first half)
    sel_pc,                 \* "build" | "none" (returned None) | "selected"
    df_columns,             \* df.columns, in column order
    all_features,           \* the feature list the function built (empty before)
    \* ---- The energy report of the Trip Simulator (simulate_complete_trip, its end)
    sim_report              \* the energies and savings as the program's doubles

simVars == <<sim_pc, heater_col, test_trip_df, high_power_threshold,
             predicted_loads, new_heater_powers, statuses,
             baseline_energy, optimized_energy, baseline_cumulative, optimized_cumulative>>

prepVars == <<prep_pc, prep_cols, prep_df, prep_out>>

infVars == <<inf_pc, feature_list, vehicle_data, features_df>>

featVars == <<feat_pc, all_trips_df, df_model, source_df, feat_op, future_horizons, trip_ids,
              processed_dfs, gen_base, gen_devs>>

pipeVars == <<pipe_pc, stages, model, test_trip_id, percentage_saved>>

selVars == <<sel_pc, df_columns, all_features>>

savVars == <<sim_report>>

vars == <<simVars, prepVars, infVars, featVars, pipeVars, selVars, savVars>>

----------------------------------------------------------------------------
\* Generic helpers

RECURSIVE SeqSum(_)
SeqSum(s) == IF s = <<>> THEN 0 ELSE Head(s) + SeqSum(Tail(s))

Range(s) == {s[i] : i \in DOMAIN s}

Max(a, b) == IF a >= b THEN a ELSE b

SetMin(S) == CHOOSE x \in S : \A y \in S : x <= y

\* s[a..b], empty when a > b (a Python slice)
Slice(s, a, b) == [i \in 1..Max(0, b - a + 1) |-> s[a + i - 1]]

\* the indices 1..n as a sequence
Indices(n) == [i \in 1..n |-> i]

\* pd.concat of a list of tables
RECURSIVE Concat(_)
Concat(ss) == IF ss = <<>> THEN <<>> ELSE Head(ss) \o Concat(Tail(ss))

\* the arrangements of a finite set
RECURSIVE Perms(_)
Perms(S) ==
    IF S = {} THEN {<<>>}
    ELSE UNION {{<<x>> \o q : q \in Perms(S \ {x})} : x \in S}

\* floor of the square root, by bisection on lo..hi
RECURSIVE ISqrtIn(_, _, _)
ISqrtIn(n, lo, hi) ==
    IF lo >= hi THEN lo
    ELSE LET mid == (lo + hi + 1) \div 2
         IN IF mid * mid <= n THEN ISqrtIn(n, mid, hi) ELSE ISqrtIn(n, lo, mid - 1)

ISqrt(n) == ISqrtIn(n, 0, 46340)

\* A missing value (NaN) and a present one
Null == <<>>
Some(v) == <<v>>
IsNull(x) == x = <<>>
Val(x) == x[1]

----------------------------------------------------------------------------
\* Double-precision arithmetic.  The program computes in Python floats, which
\* are IEEE 754 doubles; where the rounding of an operation matters the model
\* computes the same double, on natural numbers of any size.

\* Natural numbers of any size: the limbs, least significant first, no
\* leading zero limb; zero is the empty sequence
\* (how the arithmetic lays numbers out; nothing of the program depends on it)
Layout == [limb_bits |-> 13, digit_bits |-> 7, quotient_digits |-> 8]
LimbBits == Layout.limb_bits
LimbBase == 2^LimbBits

RECURSIVE BigFromInt(_)
BigFromInt(n) == IF n = 0 THEN <<>> ELSE <<n % LimbBase>> \o BigFromInt(n \div LimbBase)

RECURSIVE BigNorm(_)
BigNorm(a) ==
    IF a = <<>> THEN <<>>
    ELSE IF a[Len(a)] = 0 THEN BigNorm(SubSeq(a, 1, Len(a) - 1)) ELSE a

RECURSIVE BigAddCarry(_, _, _)
BigAddCarry(a, b, carry) ==
    IF a = <<>> /\ b = <<>> THEN (IF carry = 0 THEN <<>> ELSE <<carry>>)
    ELSE LET s == (IF a = <<>> THEN 0 ELSE Head(a)) + (IF b = <<>> THEN 0 ELSE Head(b)) + carry
         IN <<s % LimbBase>> \o BigAddCarry(IF a = <<>> THEN <<>> ELSE Tail(a),
                                           IF b = <<>> THEN <<>> ELSE Tail(b), s \div LimbBase)
BigAdd(a, b) == BigAddCarry(a, b, 0)

\* a - b for a >= b
RECURSIVE BigSubBorrow(_, _, _)
BigSubBorrow(a, b, borrow) ==
    IF a = <<>> THEN <<>>
    ELSE LET d == Head(a) - (IF b = <<>> THEN 0 ELSE Head(b)) - borrow
         IN <<d % LimbBase>> \o BigSubBorrow(Tail(a), IF b = <<>> THEN <<>> ELSE Tail(b),
                                            IF d < 0 THEN 1 ELSE 0)
BigSub(a, b) == BigNorm(BigSubBorrow(a, b, 0))

\* -1, 0, 1 as a < b, a = b, a > b
RECURSIVE BigCmp(_, _)
BigCmp(a, b) ==
    IF Len(a) # Len(b) THEN (IF Len(a) < Len(b) THEN -1 ELSE 1)
    ELSE IF a = <<>> THEN 0
    ELSE IF a[Len(a)] # b[Len(b)] THEN (IF a[Len(a)] < b[Len(b)] THEN -1 ELSE 1)
    ELSE BigCmp(BigNorm(SubSeq(a, 1, Len(a) - 1)), BigNorm(SubSeq(b, 1, Len(b) - 1)))

RECURSIVE BigMulSmallCarry(_, _, _)
BigMulSmallCarry(a, k, carry) ==
    IF a = <<>> THEN BigFromInt(carry)
    ELSE LET p == Head(a) * k + carry
         IN <<p % LimbBase>> \o BigMulSmallCarry(Tail(a), k, p \div LimbBase)
BigMulSmall(a, k) == BigNorm(BigMulSmallCarry(a, k, 0))

BigShiftLimbs(a, n) == IF a = <<>> THEN <<>> ELSE [i \in 1..n |-> 0] \o a

RECURSIVE BigMul(_, _)
BigMul(a, b) ==
    IF a = <<>> \/ b = <<>> THEN <<>>
    ELSE BigAdd(BigMulSmall(a, Head(b)), BigShiftLimbs(BigMul(a, Tail(b)), 1))

\* quotient and remainder of a by a small d
RECURSIVE BigDivSmall(_, _)
BigDivSmall(a, d) ==
    IF a = <<>> THEN [q |-> <<>>, r |-> 0]
    ELSE LET hi == BigDivSmall(Tail(a), d)
             cur == hi.r * LimbBase + Head(a)
         IN [q |-> <<cur \div d>> \o hi.q, r |-> cur % d]

BigShl(a, k) == BigShiftLimbs(BigMulSmall(a, 2^(k % LimbBits)), k \div LimbBits)
BigShr(a, k) ==
    IF k \div LimbBits >= Len(a) THEN <<>>
    ELSE BigNorm(BigDivSmall(SubSeq(a, k \div LimbBits + 1, Len(a)), 2^(k % LimbBits)).q)
BigLowBits(a, k) == BigSub(a, BigShl(BigShr(a, k), k))
BigIsOdd(a) == a # <<>> /\ a[1] % 2 = 1
BigBit(a, i) ==
    IF i \div LimbBits >= Len(a) THEN 0
    ELSE (a[i \div LimbBits + 1] \div 2^(i % LimbBits)) % 2

RECURSIVE SmallBitLength(_)
SmallBitLength(n) == IF n = 0 THEN 0 ELSE 1 + SmallBitLength(n \div 2)
BigBitLength(a) == IF a = <<>> THEN 0 ELSE (Len(a) - 1) * LimbBits + SmallBitLength(a[Len(a)])

\* the number made of the limbs of a above the lowest k (at most two)
BigTop(a, k) ==
    (IF Len(a) > k THEN a[k + 1] ELSE 0) + (IF Len(a) > k + 1 THEN a[k + 2] * LimbBase ELSE 0)

\* k more digits of the quotient r / d for r < d, in base DigitBase: the
\* digits as a number q, and the remainder r * DigitBase^k - q * d.  d has
\* five limbs; the leading limbs of the scaled remainder and of d give the
\* next digit to within one.
DigitBits == Layout.digit_bits
DigitBase == 2^DigitBits
RECURSIVE BigFracDigits(_, _, _)
BigFracDigits(r, d, k) ==
    IF k = 0 THEN [q |-> <<>>, r |-> r]
    ELSE LET prev == BigFracDigits(r, d, k - 1)
             scaled == BigMulSmall(prev.r, DigitBase)
             estimate == BigTop(scaled, 3) \div BigTop(d, 3)
             digit == CHOOSE c \in {estimate - 1, estimate, estimate + 1} \cap Nat :
                         /\ BigCmp(BigMulSmall(d, c), scaled) <= 0
                         /\ BigCmp(BigMulSmall(d, c + 1), scaled) > 0
         IN [q |-> BigAdd(BigMulSmall(prev.q, DigitBase), BigFromInt(digit)),
             r |-> BigSub(scaled, BigMulSmall(d, digit))]

\* IEEE 754 double precision, finite values: (-1)^s * m * 2^e with m of
\* exactly MantissaBits bits, or zero
MantissaBits == 53
FZero == [s |-> 0, m |-> <<>>, e |-> 0]

\* round to nearest, ties to even
FRound(s, big, e) ==
    IF big = <<>> THEN FZero
    ELSE LET len == BigBitLength(big)
         IN IF len <= MantissaBits
            THEN [s |-> s, m |-> BigShl(big, MantissaBits - len), e |-> e - (MantissaBits - len)]
            ELSE LET d == len - MantissaBits
                     q == BigShr(big, d)
                     rem == BigLowBits(big, d)
                     half == BigShl(<<1>>, d - 1)
                     up == BigCmp(rem, half) > 0 \/ (BigCmp(rem, half) = 0 /\ BigIsOdd(q))
                     q1 == IF up THEN BigAdd(q, <<1>>) ELSE q
                 IN IF BigBitLength(q1) > MantissaBits
                    THEN [s |-> s, m |-> BigShr(q1, 1), e |-> e + d + 1]
                    ELSE [s |-> s, m |-> q1, e |-> e + d]

FFromInt(n) == FRound(IF n < 0 THEN 1 ELSE 0, BigFromInt(IF n < 0 THEN -n ELSE n), 0)

FMul(a, b) == FRound((a.s + b.s) % 2, BigMul(a.m, b.m), a.e + b.e)

FNeg(a) == IF a.m = <<>> THEN a ELSE [a EXCEPT !.s = 1 - a.s]

FAdd(a, b) ==
    IF a.m = <<>> THEN b
    ELSE IF b.m = <<>> THEN a
    ELSE LET e == IF a.e < b.e THEN a.e ELSE b.e
             am == BigShl(a.m, a.e - e)
             bm == BigShl(b.m, b.e - e)
         IN IF a.s = b.s THEN FRound(a.s, BigAdd(am, bm), e)
            ELSE IF BigCmp(am, bm) >= 0 THEN FRound(a.s, BigSub(am, bm), e)
            ELSE FRound(b.s, BigSub(bm, am), e)

FSub(a, b) == FAdd(a, FNeg(b))

\* a / b for b # 0.  The mantissas have the same length, so the quotient of
\* the mantissas has the integer part 0 or 1; QuotientDigits digits more and
\* a sticky bit for the remainder settle the rounding.
QuotientDigits == Layout.quotient_digits
FDiv(a, b) ==
    IF a.m = <<>> THEN FZero
    ELSE LET ge == BigCmp(a.m, b.m) >= 0
             r0 == IF ge THEN BigSub(a.m, b.m) ELSE a.m
             frac == BigFracDigits(r0, b.m, QuotientDigits)
             q == BigAdd(IF ge THEN BigShl(<<1>>, DigitBits * QuotientDigits) ELSE <<>>, frac.q)
             sticky == IF frac.r = <<>> THEN <<>> ELSE <<1>>
         IN FRound((a.s + b.s) % 2, BigAdd(BigMulSmall(q, 2), sticky),
                   a.e - b.e - DigitBits * QuotientDigits - 1)

\* -1, 0, 1 as a < b, a = b, a > b
FCmp(a, b) ==
    LET d == FSub(a, b)
    IN IF d.m = <<>> THEN 0 ELSE IF d.s = 1 THEN -1 ELSE 1

FLe(a, b) == FCmp(a, b) <= 0

----------------------------------------------------------------------------
\* Control Policy and Trip Simulator

\* Bounds of the replayed trip
MaxTripRows == 3
MaxDt == 1

\* Program constants
PowerScale == 100
ReductionFactor == 85
DefaultHeaterPower == 2000

\* Input values: heater power readings (W), model predictions and thresholds (W)
HeaterValues == {-1000, 0, 1000}
LoadValues == {50, 90, 100}
ThresholdValues == {90}

\* Step 4 of run_intelli_therm: the decision.  The power is in hundredths of
\* a watt, so base * 0.85 is base * 85 and base is base * 100.
run_intelli_therm_increase(predicted_load, threshold, base_heater_power) ==
    IF predicted_load > threshold
    THEN [power |-> base_heater_power * (2 * PowerScale - ReductionFactor), status |-> "reduce"]
    ELSE [power |-> base_heater_power * PowerScale, status |-> "maintain"]

run_intelli_therm_ge(predicted_load, threshold, base_heater_power) ==
    IF predicted_load >= threshold
    THEN [power |-> base_heater_power * ReductionFactor, status |-> "reduce"]
    ELSE [power |-> base_heater_power * PowerScale, status |-> "maintain"]

run_intelli_therm(predicted_load, threshold, base_heater_power) ==
    IF predicted_load > threshold
    THEN [power |-> base_heater_power * ReductionFactor, status |-> "reduce"]
    ELSE [power |-> base_heater_power * PowerScale, status |-> "maintain"]

\* optimized_trip_df[time_col].diff().fillna(0): 0 for the first row
time_diff_fill_one(df, i) == IF i = 1 THEN 1 ELSE df[i].time_s - df[i - 1].time_s

time_diff(df, i) == IF i = 1 THEN 0 ELSE df[i].time_s - df[i - 1].time_s

\* heater_energy_J of the baseline run, row by row (hundredths of J)
baseline_heater_energy(df) ==
    [i \in DOMAIN df |-> df[i].heater_power_W * PowerScale * time_diff(df, i)]

\* heater_energy_J of the optimized run, row by row (hundredths of J)
optimized_heater_energy(df, powers) ==
    [i \in DOMAIN df |-> powers[i] * time_diff(df, i)]

simOthers == <<prepVars, infVars, featVars, pipeVars, selVars, savVars>>

SimInit ==
    /\ sim_pc = "build"
    /\ heater_col \in BOOLEAN
    /\ test_trip_df = <<>>
    /\ high_power_threshold \in ThresholdValues
    /\ predicted_loads = <<>>
    /\ new_heater_powers = <<>>
    /\ statuses = <<>>
    /\ baseline_energy = 0
    /\ optimized_energy = 0
    /\ baseline_cumulative = <<>>
    /\ optimized_cumulative = <<>>

\* One more row of the held-out trip.  The table the simulator is given has
\* been sorted by time within each trip (create_target_variables), so the
\* timestamps are non-decreasing.
SimAddRow ==
    /\ sim_pc = "build"
    /\ Len(test_trip_df) < MaxTripRows
    /\ \E d \in 0..MaxDt, h \in (IF heater_col THEN HeaterValues ELSE {0}) :
          LET last == IF test_trip_df = <<>> THEN 0
                      ELSE test_trip_df[Len(test_trip_df)].time_s
          IN test_trip_df' = Append(test_trip_df, [time_s |-> last + d, heater_power_W |-> h])
    /\ UNCHANGED <<sim_pc, heater_col, high_power_threshold, predicted_loads,
                   new_heater_powers, statuses, baseline_energy, optimized_energy,
                   baseline_cumulative, optimized_cumulative>>
    /\ UNCHANGED simOthers

\* simulate_complete_trip up to the replay loop: the trip is not empty; a
\* table without heater power gets the default 2 kW in every row.
SimStart ==
    /\ sim_pc = "build"
    /\ test_trip_df # <<>>
    /\ test_trip_df' = IF heater_col THEN test_trip_df
                       ELSE [i \in DOMAIN test_trip_df |->
                               [test_trip_df[i] EXCEPT !.heater_power_W = DefaultHeaterPower]]
    /\ sim_pc' = "replay"
    /\ UNCHANGED <<heater_col, high_power_threshold, predicted_loads,
                   new_heater_powers, statuses, baseline_energy, optimized_energy,
                   baseline_cumulative, optimized_cumulative>>
    /\ UNCHANGED simOthers

\* (a replay loop with hysteresis: after a reduction the next row is reduced too)
SimReplayRow_hysteresis ==
    /\ sim_pc = "replay"
    /\ Len(predicted_loads) < Len(test_trip_df)
    /\ \E predicted_load \in LoadValues :
          LET row == test_trip_df[Len(predicted_loads) + 1]
              held == statuses # <<>> /\ statuses[Len(statuses)] = "reduce"
              r == run_intelli_therm(IF held THEN high_power_threshold + 1 ELSE predicted_load,
                                     high_power_threshold, row.heater_power_W)
          IN /\ predicted_loads' = Append(predicted_loads, predicted_load)
             /\ new_heater_powers' = Append(new_heater_powers, r.power)
             /\ statuses' = Append(statuses, r.status)
    /\ UNCHANGED <<sim_pc, heater_col, test_trip_df, high_power_threshold,
                   baseline_energy, optimized_energy, baseline_cumulative, optimized_cumulative>>
    /\ UNCHANGED simOthers

\* One iteration of the replay loop: the model predicts some load for the
\* row, the policy decides, the results are appended.
SimReplayRow ==
    /\ sim_pc = "replay"
    /\ Len(predicted_loads) < Len(test_trip_df)
    /\ \E predicted_load \in LoadValues :
          LET row == test_trip_df[Len(predicted_loads) + 1]
              r == run_intelli_therm(predicted_load, high_power_threshold, row.heater_power_W)
          IN /\ predicted_loads' = Append(predicted_loads, predicted_load)
             /\ new_heater_powers' = Append(new_heater_powers, r.power)
             /\ statuses' = Append(statuses, r.status)
    /\ UNCHANGED <<sim_pc, heater_col, test_trip_df, high_power_threshold,
                   baseline_energy, optimized_energy, baseline_cumulative, optimized_cumulative>>
    /\ UNCHANGED simOthers

\* Series.cumsum(): the running sum
cumsum(col) ==
    LET cum[i \in DOMAIN col] == IF i = 1 THEN col[1] ELSE cum[i - 1] + col[i]
    IN cum

\* After the loop: time differences, energy per row, running sums, totals.
SimAccount ==
    /\ sim_pc = "replay"
    /\ Len(predicted_loads) = Len(test_trip_df)
    /\ baseline_cumulative' = cumsum(baseline_heater_energy(test_trip_df))
    /\ optimized_cumulative' = cumsum(optimized_heater_energy(test_trip_df, new_heater_powers))
    /\ baseline_energy' = SeqSum(baseline_heater_energy(test_trip_df))
    /\ optimized_energy' = SeqSum(optimized_heater_energy(test_trip_df, new_heater_powers))
    /\ sim_pc' = "done"
    /\ UNCHANGED <<heater_col, test_trip_df, high_power_threshold, predicted_loads,
                   new_heater_powers, statuses>>
    /\ UNCHANGED simOthers

SimIdle ==
    /\ sim_pc = "idle"
    /\ heater_col = FALSE
    /\ test_trip_df = <<>>
    /\ high_power_threshold = 0
    /\ predicted_loads = <<>>
    /\ new_heater_powers = <<>>
    /\ statuses = <<>>
    /\ baseline_energy = 0
    /\ optimized_energy = 0
    /\ baseline_cumulative = <<>>
    /\ optimized_cumulative = <<>>

----------------------------------------------------------------------------
\* Dataset Partitioner (prepare_data_for_modeling, prediction_horizon = 5)

\* Bounds of the partitioner's table
MaxPrepRows == 4
MaxTrips == 3

\* int(len(sorted_trip_ids) * 0.7): the fraction is 7/10.  The product is
\* taken in double precision and truncated; for fewer than 90 trips that is
\* the exact floor of 7n/10.
TrainFractionNum == 7
TrainFractionDen == 10

RequiredCols == {"powertrain_load_W", "future_load_W_5s"}

\* The result when the function gives up: eight times None
NoData ==
    [none |-> TRUE, X_train |-> <<>>, X_test |-> <<>>,
     train_trip_ids |-> <<>>, test_trip_ids |-> <<>>]

\* valid_mask: the row has no null feature and no null target
valid_mask(df) == [i \in DOMAIN df |-> ~(df[i].x_null \/ df[i].y_null)]

\* X = X[valid_mask]: the valid rows, by their index in the table, in table order
ValidRows(df) == SelectSeq(Indices(Len(df)), LAMBDA i : valid_mask(df)[i])

\* Series.unique(): the distinct values in order of first appearance
RECURSIVE unique(_)
unique(s) ==
    IF s = <<>> THEN <<>>
    ELSE LET front == unique(SubSeq(s, 1, Len(s) - 1))
             x == s[Len(s)]
         IN IF x \in Range(front) THEN front ELSE Append(front, x)

\* sorted(): ascending
RECURSIVE sorted(_)
sorted(S) ==
    IF S = {} THEN <<>>
    ELSE LET m == SetMin(S) IN <<m>> \o sorted(S \ {m})

\* df[valid_mask]['trip_id'].unique()
valid_trip_ids(df) == unique([k \in DOMAIN ValidRows(df) |-> df[ValidRows(df)[k]].trip_id])

\* split_idx = max(1, int(len(sorted_trip_ids) * 0.7))
split_idx_ceil(n) == Max(1, (n * TrainFractionNum + TrainFractionDen - 1) \div TrainFractionDen)

\* (a split that keeps every trip for training)
split_idx_all_train(n) == Max(1, n)

split_idx(n) == Max(1, (n * TrainFractionNum) \div TrainFractionDen)

\* (the trip mask applied to the whole table instead of the valid rows)
RowsOfTrips_all_rows(df, ids) ==
    SelectSeq(Indices(Len(df)), LAMBDA i : df[i].trip_id \in Range(ids))

\* X[df[valid_mask]['trip_id'].isin(ids)]
RowsOfTrips(df, ids) == SelectSeq(ValidRows(df), LAMBDA i : df[i].trip_id \in Range(ids))

\* fewer than 2 valid trips: all data is both train and test
degenerate_split_no_test(df) ==
    [none |-> FALSE, X_train |-> ValidRows(df), X_test |-> <<>>,
     train_trip_ids |-> valid_trip_ids(df), test_trip_ids |-> <<>>]

degenerate_split(df) ==
    [none |-> FALSE, X_train |-> ValidRows(df), X_test |-> ValidRows(df),
     train_trip_ids |-> valid_trip_ids(df), test_trip_ids |-> valid_trip_ids(df)]

\* at least 2 valid trips: the first split_idx sorted trips train, the rest test
trip_split_overlap(df) ==
    LET sorted_trip_ids == sorted(Range(valid_trip_ids(df)))
        idx == split_idx(Len(sorted_trip_ids))
        train == Slice(sorted_trip_ids, 1, idx)
        test == Slice(sorted_trip_ids, idx, Len(sorted_trip_ids))
    IN [none |-> FALSE, X_train |-> RowsOfTrips(df, train), X_test |-> RowsOfTrips(df, test),
        train_trip_ids |-> train, test_trip_ids |-> test]

trip_split(df) ==
    LET sorted_trip_ids == sorted(Range(valid_trip_ids(df)))
        idx == split_idx(Len(sorted_trip_ids))
        train == Slice(sorted_trip_ids, 1, idx)
        test == Slice(sorted_trip_ids, idx + 1, Len(sorted_trip_ids))
    IN [none |-> FALSE, X_train |-> RowsOfTrips(df, train), X_test |-> RowsOfTrips(df, test),
        train_trip_ids |-> train, test_trip_ids |-> test]

prepare_data_for_modeling(df, cols) ==
    IF df = <<>> THEN NoData
    ELSE IF "powertrain_load_W" \notin cols THEN NoData
    ELSE IF "future_load_W_5s" \notin cols THEN NoData
    ELSE IF ValidRows(df) = <<>> THEN NoData
    ELSE IF Len(valid_trip_ids(df)) < 2 THEN degenerate_split(df)
    ELSE trip_split(df)

prepOthers == <<simVars, infVars, featVars, pipeVars, selVars, savVars>>

PrepInit ==
    /\ prep_pc = "build"
    /\ prep_cols \in SUBSET RequiredCols
    /\ prep_df = <<>>
    /\ prep_out = NoData

\* One more row of the table.  The table the partitioner is given is grouped
\* by trip in ascending trip order (the cleaning step sorts by trip and time,
\* the builders concatenate the trips in that order); a row has a null
\* feature, a null target, or neither.
PrepAddRow ==
    /\ prep_pc = "build"
    /\ Len(prep_df) < MaxPrepRows
    /\ \E t \in 1..MaxTrips, nulls \in {<<FALSE, FALSE>>, <<TRUE, FALSE>>, <<FALSE, TRUE>>} :
          /\ prep_df # <<>> => t >= prep_df[Len(prep_df)].trip_id
          /\ prep_df' = Append(prep_df, [trip_id |-> t, x_null |-> nulls[1], y_null |-> nulls[2]])
    /\ UNCHANGED <<prep_pc, prep_cols, prep_out>>
    /\ UNCHANGED prepOthers

\* The call prepare_data_for_modeling(all_trips_df)
PrepareData ==
    /\ prep_pc = "build"
    /\ prep_out' = prepare_data_for_modeling(prep_df, prep_cols)
    /\ prep_pc' = "done"
    /\ UNCHANGED <<prep_cols, prep_df>>
    /\ UNCHANGED prepOthers

PrepIdle ==
    /\ prep_pc = "idle"
    /\ prep_cols = {}
    /\ prep_df = <<>>
    /\ prep_out = NoData

----------------------------------------------------------------------------
\* Inference feature vector (prepare_features_for_prediction)

\* Bounds of the feature names and of the training feature list
MaxLag == 1
MaxFeatures == 3

\* A feature name is a base channel and a lag offset: lag 0 is the channel
\* itself, lag k > 0 is the name "<base>_lag<k>".  With this, '_lag' in feature
\* is lag > 0 and feature.split('_lag')[0] is the name [base, 0].
BaseChannels == {"powertrain_load_W", "speed_kmh"}
FeatureNames == [base : BaseChannels, lag : 0..MaxLag]

has_lag(feature) == feature.lag > 0
split_lag(feature) == [base |-> feature.base, lag |-> 0]

\* The value a record holds in a column: distinct for distinct columns
ChannelValue(name) ==
    (IF name.base = "powertrain_load_W" THEN 1000 ELSE 2000) + name.lag

\* (a loop in which a lag feature always takes the current value of its base)
RECURSIVE prepare_features_current_value(_, _)
prepare_features_current_value(data, features) ==
    IF features = <<>> THEN <<>>
    ELSE LET feature == features[Len(features)]
             done == prepare_features_current_value(data, SubSeq(features, 1, Len(features) - 1))
         IN IF has_lag(feature)
            THEN IF split_lag(feature) \in data
                 THEN Append(done, [name |-> feature, value |-> ChannelValue(split_lag(feature))])
                 ELSE done
            ELSE IF feature \in data
            THEN Append(done, [name |-> feature, value |-> ChannelValue(feature)])
            ELSE Append(done, [name |-> feature, value |-> 0])

\* The loop over feature_list: a feature of the record is copied; a lag
\* feature the record lacks takes the current value of its base channel when
\* the record has that, and is given no column otherwise; any other feature
\* the record lacks is filled with 0.
RECURSIVE prepare_features_for_prediction(_, _)
prepare_features_for_prediction(data, features) ==
    IF features = <<>> THEN <<>>
    ELSE LET feature == features[Len(features)]
             done == prepare_features_for_prediction(data, SubSeq(features, 1, Len(features) - 1))
         IN IF feature \in data
            THEN Append(done, [name |-> feature, value |-> ChannelValue(feature)])
            ELSE IF has_lag(feature)
            THEN IF split_lag(feature) \in data
                 THEN Append(done, [name |-> feature, value |-> ChannelValue(split_lag(feature))])
                 ELSE done
            ELSE Append(done, [name |-> feature, value |-> 0])

\* The lists of distinct feature names of length at most MaxFeatures
FeatureLists ==
    {l \in UNION {[1..n -> FeatureNames] : n \in 0..MaxFeatures} :
        \A i, j \in DOMAIN l : i # j => l[i] # l[j]}

infOthers == <<simVars, prepVars, featVars, pipeVars, selVars, savVars>>

InfInit ==
    /\ inf_pc = "ready"
    /\ feature_list \in FeatureLists
    /\ vehicle_data \in SUBSET FeatureNames
    /\ features_df = <<>>

\* The call prepare_features_for_prediction(vehicle_data, feature_list)
PrepareFeatures ==
    /\ inf_pc = "ready"
    /\ features_df' = prepare_features_for_prediction(vehicle_data, feature_list)
    /\ inf_pc' = "done"
    /\ UNCHANGED <<feature_list, vehicle_data>>
    /\ UNCHANGED infOthers

InfIdle ==
    /\ inf_pc = "idle"
    /\ feature_list = <<>>
    /\ vehicle_data = {}
    /\ features_df = <<>>

----------------------------------------------------------------------------
\* Feature Builder and Target Builder

\* Bounds of the short tables (several trips, rows in any order)
FeatMaxRows == 3
FeatMaxTime == 1

\* Bounds of the long table (one trip, long enough for the 3-sigma clip to act)
MaxSegLen == 11
MaxDeviations == 1

\* Program constants: the clip at mean +/- 3 * std
SigmaFactor == 3

\* Rates of change are kept in hundredths of their unit
RateScale == 100

TripIdValues == {1, 2}

\* lag_periods of create_lagged_features
lag_periods == <<1, 2, 3, 5, 10>>

\* future_horizons of create_target_variables: the default and shorter lists
HorizonLists == {<<5, 10>>, <<1, 2>>, <<2>>}

\* df[df['trip_id'] == trip_id]: the rows of a trip, in table order
TripRows_whole_table(df, t) == df

TripRows(df, t) == SelectSeq(df, LAMBDA r : r.trip_id = t)

\* trip_df.sort_values(time_col).reset_index(drop=True).  The default sort
\* kind is quicksort, which is not stable: rows with equal time come out in
\* any order.  The operator gives the index arrangements the sort may return.
RECURSIVE SortedIndexSeqs(_, _)
SortedIndexSeqs(seg, I) ==
    IF I = {} THEN {<<>>}
    ELSE LET t == SetMin({seg[i].time_s : i \in I})
             G == {i \in I : seg[i].time_s = t}
         IN {p \o q : p \in Perms(G), q \in SortedIndexSeqs(seg, I \ G)}

sort_values(seg) ==
    {[k \in DOMAIN s |-> seg[s[k]]] : s \in SortedIndexSeqs(seg, DOMAIN seg)}

\* Series.diff(): missing in the first row
diff(col) == [i \in DOMAIN col |-> IF i = 1 THEN Null ELSE Some(col[i] - col[i - 1])]

\* Series.shift(k), k > 0: the value k rows earlier, missing in the first k rows
shift(col, k) == [i \in DOMAIN col |-> IF i > k THEN Some(col[i - k]) ELSE Null]

\* Series.shift(-h), h > 0: the value h rows later, missing in the last h rows
shift_back_one_less(col, h) ==
    [i \in DOMAIN col |-> IF i + h - 1 <= Len(col) THEN Some(col[i + h - 1]) ELSE Null]

shift_back(col, h) ==
    [i \in DOMAIN col |-> IF i + h <= Len(col) THEN Some(col[i + h]) ELSE Null]

\* (a fill that takes the last present value of the column)
bfill_from_last_row(col) ==
    LET present == {i \in DOMAIN col : ~IsNull(col[i])}
    IN [i \in DOMAIN col |->
          IF ~IsNull(col[i]) \/ present = {} THEN col[i] ELSE col[CHOOSE j \in present : \A m \in present : m <= j]]

\* Series.bfill(): a missing value takes the next present value below it
bfill(col) ==
    LET bf[i \in DOMAIN col] ==
            IF ~IsNull(col[i]) THEN col[i]
            ELSE IF i < Len(col) THEN bf[i + 1] ELSE Null
    IN bf

\* speed_kmh / 3.6, in hundredths of m/s
speed_ms(speed_kmh) == (speed_kmh * RateScale * 10) \div 36

\* np.where((time_diff != 0) & (~time_diff.isna()), value_diff / time_diff, 0)
rate_of_change_no_guard(value_diff, dt) ==
    IF IsNull(dt) THEN 0
    ELSE IF Val(dt) = 0 THEN Val(value_diff)
    ELSE Val(value_diff) \div Val(dt)

rate_of_change(value_diff, dt) ==
    IF ~IsNull(dt) /\ Val(dt) # 0 THEN Val(value_diff) \div Val(dt) ELSE 0

\* n * sum(x^2) - sum(x)^2 = n * (n - 1) * var(x), the sample variance (ddof = 1)
ColSum(col) == SeqSum(col)
ColSumSq(col) == SeqSum([i \in DOMAIN col |-> col[i] * col[i]])
ScaledVar(col) == Len(col) * ColSumSq(col) - ColSum(col) * ColSum(col)

\* col.std() > 0: the sample standard deviation of a single value is missing
std_positive(col) == Len(col) >= 2 /\ ScaledVar(col) > 0

\* 3 * n * std, rounded down
ThreeSigmaTimesN(col) ==
    ISqrt(((SigmaFactor * SigmaFactor * ScaledVar(col)) \div (Len(col) - 1)) * Len(col))

\* mean + 3 * std rounded down and mean - 3 * std rounded up: a value of the
\* column, a whole number of hundredths, is beyond the rounded bound exactly
\* when it is beyond the bound.
upper_bound(col) == (ColSum(col) + ThreeSigmaTimesN(col)) \div Len(col)
lower_bound(col) == -((ThreeSigmaTimesN(col) - ColSum(col)) \div Len(col))

\* the two .loc assignments: values beyond mean +/- 3 * std are set to the bound
clip_3sigma_upper_only(col) ==
    IF std_positive(col)
    THEN [i \in DOMAIN col |-> IF col[i] > upper_bound(col) THEN upper_bound(col) ELSE col[i]]
    ELSE col

clip_3sigma(col) ==
    IF std_positive(col)
    THEN LET up == upper_bound(col)
             lo == lower_bound(col)
         IN [i \in DOMAIN col |->
               IF col[i] > up THEN up ELSE IF col[i] < lo THEN lo ELSE col[i]]
    ELSE col

\* The channels a table may lack
OptionalChannels == {"speed_kmh", "throttle_pedal"}

\* The throttle branch reads trip_df['time_diff'], a column only the speed
\* branch creates: on a table with the throttle and without the speed the
\* read raises KeyError.
rate_of_change_raises(seg) ==
    "throttle_pedal" \in DOMAIN seg[1] /\ "speed_kmh" \notin DOMAIN seg[1]

\* The body of create_rate_of_change_features' loop for one time-sorted trip:
\* the speed branch when the trip has the speed, the throttle branch when it
\* has the throttle.  The columns *_unclipped keep what np.where computed,
\* before the clip overwrites the column.
rate_of_change_trip(seg) ==
    LET has_speed == "speed_kmh" \in DOMAIN seg[1]
        has_throttle == "throttle_pedal" \in DOMAIN seg[1]
        ms == [i \in DOMAIN seg |-> speed_ms(seg[i].speed_kmh)]
        speed_diff == diff(ms)
        trip_time_diff == diff([i \in DOMAIN seg |-> seg[i].time_s])
        acc == [i \in DOMAIN seg |-> rate_of_change(speed_diff[i], trip_time_diff[i])]
        acc_clipped == clip_3sigma(acc)
        throttle_change == diff([i \in DOMAIN seg |-> seg[i].throttle_pedal * RateScale])
        rate == [i \in DOMAIN seg |-> rate_of_change(throttle_change[i], trip_time_diff[i])]
        rate_clipped == clip_3sigma(rate)
        speed_branch(i) ==
            IF has_speed
            THEN [speed_ms |-> ms[i], speed_diff |-> speed_diff[i],
                  time_diff |-> trip_time_diff[i],
                  acceleration_unclipped |-> acc[i], acceleration_ms2 |-> acc_clipped[i]]
            ELSE <<>>
        throttle_branch(i) ==
            IF has_throttle
            THEN [throttle_change |-> throttle_change[i],
                  throttle_rate_unclipped |-> rate[i], throttle_change_rate |-> rate_clipped[i]]
            ELSE <<>>
    IN [i \in DOMAIN seg |-> throttle_branch(i) @@ speed_branch(i) @@ seg[i]]

\* lag_features of create_lagged_features: the channels to lag that the table has
LagChannels == {"powertrain_load_W", "speed_kmh", "acceleration_ms2", "throttle_pedal"}
lag_features(seg) == {f \in LagChannels : f \in DOMAIN seg[1]}

\* the columns of the table that can hold a missing value
DiffColumns == {"speed_diff", "time_diff", "throttle_change"}

\* The body of create_lagged_features' loop for one time-sorted trip: a lag
\* column per channel and offset, then bfill() of every column.
lagged_trip(seg) ==
    LET lagcol(f, k) == bfill(shift([i \in DOMAIN seg |-> seg[i][f]], k))
        lags == [c \in lag_features(seg) \X Range(lag_periods) |-> lagcol(c[1], c[2])]
        filled == [d \in DiffColumns \cap DOMAIN seg[1] |->
                     bfill([i \in DOMAIN seg |-> seg[i][d]])]
    IN [i \in DOMAIN seg |->
          [lags |-> [c \in DOMAIN lags |-> lags[c][i]]]
          @@ [d \in DOMAIN filled |-> filled[d][i]]
          @@ seg[i]]

\* The body of create_target_variables' loop for one time-sorted trip
target_trip(seg, horizons) ==
    LET load == [i \in DOMAIN seg |-> seg[i].powertrain_load_W]
    IN [i \in DOMAIN seg |->
          [future_load |-> [h \in Range(horizons) |-> shift_back(load, h)[i]]] @@ seg[i]]

\* result_df.dropna(subset=target_cols): a row goes when any target is missing
dropna_all_missing(df, horizons) ==
    SelectSeq(df, LAMBDA r : \E h \in Range(horizons) : ~IsNull(r.future_load[h]))

dropna(df, horizons) ==
    SelectSeq(df, LAMBDA r : \A h \in Range(horizons) : ~IsNull(r.future_load[h]))

\* the pipeline runs the builders in this order
OpStage(op) ==
    CASE op = "none" -> 0 [] op = "load" -> 1 [] op = "rate" -> 2 [] op = "lag" -> 3
      [] op = "target" -> 4

NoStep == [dt |-> 0, ds |-> 0, dth |-> 0]

\* The steps from one row of the long segment to the next: time, speed
\* (km/h) and throttle (%) increments
RampStep == [dt |-> 1, ds |-> 36, dth |-> 0]
FlatStep == [dt |-> 1, ds |-> 0, dth |-> 10]
TieStep == [dt |-> 0, ds |-> 36, dth |-> 10]
SlowStep == [dt |-> 2, ds |-> 36, dth |-> 10]
BaseSteps == {RampStep, FlatStep}
Steps == {RampStep, FlatStep, TieStep, SlowStep}

featOthers == <<simVars, prepVars, infVars, pipeVars, selVars, savVars>>

FeatInit ==
    /\ feat_pc = "build"
    /\ all_trips_df = <<>>
    /\ df_model = <<>>
    /\ source_df = <<>>
    /\ feat_op = "none"
    /\ future_horizons = <<>>
    /\ trip_ids = <<>>
    /\ processed_dfs = <<>>
    /\ gen_devs = 0

\* One more row of a short table: any trip, any time.  The row's channels
\* are set from its position, so that every row can be told from the others.
FeatAddRow ==
    /\ feat_pc = "build"
    /\ feat_op = "none"
    /\ Len(all_trips_df) < FeatMaxRows
    /\ \E t \in TripIdValues, time \in 0..FeatMaxTime :
          LET rid == Len(all_trips_df) + 1
          IN all_trips_df' = Append(all_trips_df,
                [rid |-> rid, trip_id |-> t, time_s |-> time,
                 speed_kmh |-> 36 * (rid % 3), throttle_pedal |-> 10 * ((rid + 1) % 3),
                 powertrain_load_W |-> 1000 * rid])
    /\ UNCHANGED <<feat_pc, df_model, source_df, feat_op, future_horizons, trip_ids, processed_dfs,
                   gen_base, gen_devs>>
    /\ UNCHANGED featOthers

\* One more row of the long table: one trip, sorted by time; the row follows
\* the last by the segment's regular step or, at most MaxDeviations times, by
\* another step.
LongAddRow ==
    /\ feat_pc = "build"
    /\ feat_op = "none"
    /\ Len(all_trips_df) < MaxSegLen
    /\ \E step \in (IF all_trips_df = <<>> THEN {NoStep} ELSE Steps) :
          LET rid == Len(all_trips_df) + 1
              last == IF all_trips_df = <<>>
                      THEN [time_s |-> 0, speed_kmh |-> 0, throttle_pedal |-> 0]
                      ELSE all_trips_df[Len(all_trips_df)]
              dev == IF step \in {NoStep, gen_base} THEN 0 ELSE 1
          IN /\ gen_devs + dev <= MaxDeviations
             /\ gen_devs' = gen_devs + dev
             /\ all_trips_df' = Append(all_trips_df,
                   [rid |-> rid, trip_id |-> 1, time_s |-> last.time_s + step.dt,
                    speed_kmh |-> last.speed_kmh + step.ds,
                    throttle_pedal |-> last.throttle_pedal + step.dth,
                    powertrain_load_W |-> 1000 * rid])
    /\ UNCHANGED <<feat_pc, df_model, source_df, feat_op, future_horizons, trip_ids, processed_dfs,
                   gen_base>>
    /\ UNCHANGED featOthers

\* Entry of a builder: the copy of the table, the trips in order of appearance
EnterBuilder(op) ==
    /\ feat_pc = "build"
    /\ OpStage(op) > OpStage(feat_op)
    /\ feat_op' = op
    /\ df_model' = all_trips_df
    /\ source_df' = all_trips_df
    /\ trip_ids' = unique([i \in DOMAIN all_trips_df |-> all_trips_df[i].trip_id])
    /\ processed_dfs' = <<>>
    /\ feat_pc' = "loop"
    /\ UNCHANGED <<all_trips_df, gen_base, gen_devs>>
    /\ UNCHANGED featOthers

StartRate == EnterBuilder("rate") /\ UNCHANGED future_horizons

StartLag == EnterBuilder("lag") /\ UNCHANGED future_horizons

\* create_target_variables goes on to its loop when the table has the load
LoadAvailable == all_trips_df # <<>> => "powertrain_load_W" \in DOMAIN all_trips_df[1]

StartTarget ==
    /\ LoadAvailable
    /\ \E horizons \in HorizonLists : EnterBuilder("target") /\ future_horizons' = horizons

\* create_target_variables on a table without the load: the table is returned
TargetNoLoad ==
    /\ feat_pc = "build"
    /\ OpStage("target") > OpStage(feat_op)
    /\ ~LoadAvailable
    /\ feat_op' = "target"
    /\ df_model' = all_trips_df
    /\ source_df' = all_trips_df
    /\ trip_ids' = <<>>
    /\ processed_dfs' = <<>>
    /\ \E horizons \in HorizonLists : future_horizons' = horizons
    /\ UNCHANGED <<feat_pc, all_trips_df, gen_base, gen_devs>>
    /\ UNCHANGED featOthers

\* One more row of a table that lacks some of the optional channels: the
\* first row settles which
ChanAddRow ==
    /\ feat_pc = "build"
    /\ feat_op = "none"
    /\ Len(all_trips_df) < FeatMaxRows
    /\ \E t \in TripIdValues, time \in 0..FeatMaxTime :
       \E present \in (IF all_trips_df = <<>> THEN SUBSET OptionalChannels
                        ELSE {OptionalChannels \cap DOMAIN all_trips_df[1]}) :
          LET rid == Len(all_trips_df) + 1
              row == [rid |-> rid, trip_id |-> t, time_s |-> time,
                      speed_kmh |-> 36 * (rid % 3), throttle_pedal |-> 10 * ((rid + 1) % 3),
                      powertrain_load_W |-> 1000 * rid]
              columns == (DOMAIN row \ OptionalChannels) \cup present
          IN all_trips_df' = Append(all_trips_df, [c \in columns |-> row[c]])
    /\ UNCHANGED <<feat_pc, df_model, source_df, feat_op, future_horizons, trip_ids, processed_dfs,
                   gen_base, gen_devs>>
    /\ UNCHANGED featOthers

\* One more row of a table as the cleaning block leaves it: sorted by trip
\* and, within a trip, by time, one sample per time unit.  The table may be
\* long enough for the longest lag and the longest horizon.
SortedAddRow ==
    /\ feat_pc = "build"
    /\ feat_op = "none"
    /\ Len(all_trips_df) < MaxSegLen
    /\ \E t \in (IF all_trips_df = <<>> THEN TripIdValues
                  ELSE {u \in TripIdValues : u >= all_trips_df[Len(all_trips_df)].trip_id}) :
          LET rid == Len(all_trips_df) + 1
          IN all_trips_df' = Append(all_trips_df,
                [rid |-> rid, trip_id |-> t, time_s |-> rid,
                 speed_kmh |-> 36 * (rid % 3), throttle_pedal |-> 10 * ((rid + 1) % 3),
                 powertrain_load_W |-> 1000 * rid])
    /\ UNCHANGED <<feat_pc, df_model, source_df, feat_op, future_horizons, trip_ids, processed_dfs,
                   gen_base, gen_devs>>
    /\ UNCHANGED featOthers

\* One more row of a table as loaded: voltage and current, no load yet
RawAddRow ==
    /\ feat_pc = "build"
    /\ feat_op = "none"
    /\ Len(all_trips_df) < FeatMaxRows
    /\ \E t \in TripIdValues :
          LET rid == Len(all_trips_df) + 1
          IN all_trips_df' = Append(all_trips_df,
                [rid |-> rid, trip_id |-> t, time_s |-> rid,
                 speed_kmh |-> 36 * (rid % 3), throttle_pedal |-> 10 * ((rid + 1) % 3),
                 battery_voltage_V |-> 300 + rid, battery_current_A |-> 10 * rid - 20])
    /\ UNCHANGED <<feat_pc, df_model, source_df, feat_op, future_horizons, trip_ids, processed_dfs,
                   gen_base, gen_devs>>
    /\ UNCHANGED featOthers

\* create_powertrain_load_feature(df): df['powertrain_load_W'] = voltage * current
\* is an assignment into the table the caller passed, which the caller keeps.
\* df_model holds the table as it was at the call.
CreateLoadFeature ==
    /\ feat_pc = "build"
    /\ feat_op = "none"
    /\ feat_op' = "load"
    /\ df_model' = all_trips_df
    /\ all_trips_df' =
          [i \in DOMAIN all_trips_df |->
             [powertrain_load_W |->
                 all_trips_df[i].battery_voltage_V * all_trips_df[i].battery_current_A]
             @@ all_trips_df[i]]
    /\ source_df' = all_trips_df'
    /\ UNCHANGED <<feat_pc, future_horizons, trip_ids, processed_dfs, gen_base, gen_devs>>
    /\ UNCHANGED featOthers

\* (the loop body given the table instead of the rows of its trip)
NextTripSorted_unsplit == sort_values(df_model)

\* One iteration of a builder's loop over the trips
NextTripSorted == sort_values(TripRows(df_model, trip_ids[Len(processed_dfs) + 1]))

LoopFrame ==
    /\ UNCHANGED <<feat_pc, all_trips_df, df_model, source_df, feat_op, future_horizons, trip_ids,
                   gen_base, gen_devs>>
    /\ UNCHANGED featOthers

\* An exception in the loop body leaves the function, and the script
RateTrip ==
    /\ feat_pc = "loop" /\ feat_op = "rate"
    /\ Len(processed_dfs) < Len(trip_ids)
    /\ \E trip_df \in NextTripSorted :
          IF rate_of_change_raises(trip_df)
          THEN feat_pc' = "raised" /\ UNCHANGED processed_dfs
          ELSE /\ processed_dfs' = Append(processed_dfs, rate_of_change_trip(trip_df))
               /\ UNCHANGED feat_pc
    /\ UNCHANGED <<all_trips_df, df_model, source_df, feat_op, future_horizons, trip_ids,
                   gen_base, gen_devs>>
    /\ UNCHANGED featOthers

LagTrip ==
    /\ feat_pc = "loop" /\ feat_op = "lag"
    /\ Len(processed_dfs) < Len(trip_ids)
    /\ \E trip_df \in NextTripSorted :
          processed_dfs' = Append(processed_dfs, lagged_trip(trip_df))
    /\ LoopFrame

TargetTrip ==
    /\ feat_pc = "loop" /\ feat_op = "target"
    /\ Len(processed_dfs) < Len(trip_ids)
    /\ \E trip_df \in NextTripSorted :
          processed_dfs' = Append(processed_dfs, target_trip(trip_df, future_horizons))
    /\ LoopFrame

\* After the loop: pd.concat of the per-trip tables (the argument itself when the
\* table was empty), for the targets followed by dropna; the caller binds the
\* result to all_trips_df.
ReturnResult ==
    /\ feat_pc = "loop"
    /\ Len(processed_dfs) = Len(trip_ids)
    /\ all_trips_df' =
          IF processed_dfs = <<>> THEN df_model
          ELSE IF feat_op = "target" THEN dropna(Concat(processed_dfs), future_horizons)
          ELSE Concat(processed_dfs)
    /\ feat_pc' = "build"
    /\ UNCHANGED <<df_model, source_df, feat_op, future_horizons, trip_ids, processed_dfs,
                   gen_base, gen_devs>>
    /\ UNCHANGED featOthers

FeatIdle ==
    /\ feat_pc = "idle"
    /\ all_trips_df = <<>>
    /\ df_model = <<>>
    /\ source_df = <<>>
    /\ feat_op = "none"
    /\ future_horizons = <<>>
    /\ trip_ids = <<>>
    /\ processed_dfs = <<>>
    /\ gen_base = NoStep
    /\ gen_devs = 0

----------------------------------------------------------------------------
\* The pipeline: the module-level script
\*
\* The script loads the table, runs the feature builders, the target builder,
\* the partitioner and the training, and then the simulation.  The table is
\* the partitioner's (prep_df): what matters to the script's control flow is
\* whether a table was loaded, what the partitioner returns for it and
\* whether the fit succeeds.

\* the trip simulate_complete_trip falls back to without test trips ('B30')
FallbackTripId == 1

\* load_all_trips returns None when no trip file could be read
TableLoaded == prep_df # <<>>

\* the guard of the simulation call: 'model' in locals() and model is not None
may_simulate_always(m) == TRUE

may_simulate(m) == m = "model"

\* the choice of the replayed trip: the first test trip
choose_test_trip_default(test_trip_ids) == FallbackTripId

choose_test_trip(test_trip_ids) ==
    IF test_trip_ids # <<>> THEN test_trip_ids[1] ELSE FallbackTripId

pipeOthers == <<simVars, infVars, featVars, selVars, savVars>>

PipeInit ==
    /\ pipe_pc = "load"
    /\ stages = <<>>
    /\ model = "undefined"
    /\ test_trip_id = 0
    /\ percentage_saved = "undefined"

\* One more row in the trip files
PipeAddRow == pipe_pc = "load" /\ PrepAddRow

\* all_trips_df = load_all_trips(...) and the cleaning block
PipeLoad ==
    /\ pipe_pc = "load"
    /\ pipe_pc' = "features"
    /\ UNCHANGED <<stages, model, test_trip_id, percentage_saved>>
    /\ UNCHANGED prepVars
    /\ UNCHANGED pipeOthers

\* The block "Apply feature engineering"
PipeFeatures ==
    /\ pipe_pc = "features"
    /\ stages' = IF TableLoaded THEN Append(stages, "feature_builder") ELSE stages
    /\ pipe_pc' = "targets"
    /\ UNCHANGED <<model, test_trip_id, percentage_saved>>
    /\ UNCHANGED prepVars
    /\ UNCHANGED pipeOthers

\* The block "Build the model", first call: create_target_variables
PipeTargets ==
    /\ pipe_pc = "targets"
    /\ stages' = IF TableLoaded THEN Append(stages, "target_builder") ELSE stages
    /\ pipe_pc' = IF TableLoaded THEN "partition" ELSE "simulate"
    /\ UNCHANGED <<model, test_trip_id, percentage_saved>>
    /\ UNCHANGED prepVars
    /\ UNCHANGED pipeOthers

\* The block "Build the model", second call: prepare_data_for_modeling; the
\* training is called only if X_train is not None
PipePartition ==
    /\ pipe_pc = "partition"
    /\ prep_out' = prepare_data_for_modeling(prep_df, prep_cols)
    /\ prep_pc' = "done"
    /\ stages' = Append(stages, "partitioner")
    /\ pipe_pc' = IF prep_out'.none THEN "simulate" ELSE "train"
    /\ UNCHANGED <<model, test_trip_id, percentage_saved>>
    /\ UNCHANGED <<prep_cols, prep_df>>
    /\ UNCHANGED pipeOthers

\* The block "Build the model", third call: train_and_evaluate_model, which
\* returns the fitted model, or None for an empty X_train and when the fit
\* raises
PipeTrain ==
    /\ pipe_pc = "train"
    /\ \E fitted \in BOOLEAN :
          model' = IF prep_out.X_train # <<>> /\ fitted THEN "model" ELSE "None"
    /\ stages' = Append(stages, "training")
    /\ pipe_pc' = "simulate"
    /\ UNCHANGED <<test_trip_id, percentage_saved>>
    /\ UNCHANGED prepVars
    /\ UNCHANGED pipeOthers

\* The block "Run simulation if model is available": simulate_complete_trip
\* picks the trip and returns the savings, or None, None for a trip without rows
PipeSimulate ==
    /\ pipe_pc = "simulate"
    /\ IF may_simulate(model)
       THEN LET id == choose_test_trip(prep_out.test_trip_ids)
            IN /\ test_trip_id' = id
               /\ stages' = Append(stages, "simulation")
               /\ percentage_saved' =
                     IF \E i \in DOMAIN prep_df : prep_df[i].trip_id = id
                     THEN "value" ELSE "None"
       ELSE UNCHANGED <<stages, test_trip_id, percentage_saved>>
    /\ pipe_pc' = "end"
    /\ UNCHANGED model
    /\ UNCHANGED prepVars
    /\ UNCHANGED pipeOthers

PipeIdle ==
    /\ pipe_pc = "idle"
    /\ stages = <<>>
    /\ model = "undefined"
    /\ test_trip_id = 0
    /\ percentage_saved = "undefined"

----------------------------------------------------------------------------
\* Feature selection of the Dataset Partitioner (prepare_data_for_modeling,
\* from its column checks to all_features)

\* Bound of the table's column list
MaxColumns == 4

\* Column names are strings; f"{feature}_lag{lag}"
lag_col(feature, lag) == feature \o "_lag" \o ToString(lag)

\* the lag offsets the Feature Builder produces columns for (lag_periods)
selected_lags_as_built == lag_periods

\* for lag in [1, 2, 3, 5]
selected_lags == <<1, 2, 3, 5>>

\* The columns a table may have: measured and derived channels, the target of
\* horizon 5, and the lag columns create_lagged_features adds for a channel.
LaggedChannels == {"powertrain_load_W", "speed_kmh"}
ChannelColumns ==
    {"powertrain_load_W", "speed_kmh", "throttle_pedal_%", "throttle_change_rate",
     "heater_power_W", "future_load_W_5s"}
LagColumns(channels) == {lag_col(f, lag_periods[j]) : f \in channels, j \in DOMAIN lag_periods}
ColumnNames == ChannelColumns \cup LagColumns(LaggedChannels)

\* 'throttle' in col.lower(), over ColumnNames
contains_throttle(col) == col \in {"throttle_pedal_%", "throttle_change_rate"}

\* 'temp' in col.lower() and 'ambient' in col.lower(), over ColumnNames
contains_ambient_temp(col) == col \in {"ambient_temperature_C"}

\* if name in df.columns: base_features.append(name)
append_if_column(features, name, cols) ==
    IF name \in Range(cols) THEN Append(features, name) ELSE features

\* if possible_cols: base_features.append(possible_cols[0])
append_first(features, possible_cols) ==
    IF possible_cols # <<>> THEN Append(features, possible_cols[1]) ELSE features

base_features(cols) ==
    LET load == <<"powertrain_load_W">>
        speed == append_if_column(load, "speed_kmh", cols)
        accel == append_if_column(speed, "acceleration_ms2", cols)
        throttle ==
            IF "throttle_pedal_%" \in Range(cols) THEN Append(accel, "throttle_pedal_%")
            ELSE append_first(accel, SelectSeq(cols, contains_throttle))
        ambient ==
            IF "ambient_temperature_C" \in Range(cols) THEN Append(throttle, "ambient_temperature_C")
            ELSE append_first(throttle, SelectSeq(cols, contains_ambient_temp))
        heater == append_if_column(ambient, "heater_power_W", cols)
    IN append_if_column(heater, "throttle_change_rate", cols)

\* the two nested loops over base_features and the lag offsets
selected_lag_features(cols) ==
    LET base == base_features(cols)
        candidates(i) == [j \in DOMAIN selected_lags |-> lag_col(base[i], selected_lags[j])]
    IN Concat([i \in DOMAIN base |->
                  SelectSeq(candidates(i), LAMBDA lag_column : lag_column \in Range(cols))])

\* all_features = available_base_features + available_lag_features
select_features(cols) ==
    LET available_base_features == SelectSeq(base_features(cols), LAMBDA f : f \in Range(cols))
        available_lag_features == SelectSeq(selected_lag_features(cols), LAMBDA f : f \in Range(cols))
    IN available_base_features \o available_lag_features

\* the three early returns of None before and after the selection
selection_returns_none(cols) ==
    \/ "powertrain_load_W" \notin Range(cols)
    \/ "future_load_W_5s" \notin Range(cols)
    \/ select_features(cols) = <<>>

\* the columns a table with the columns cols can get next: any channel, and a
\* lag column of a lagged channel the table has
AddableColumns(cols) ==
    (ChannelColumns \cup LagColumns(LaggedChannels \cap Range(cols))) \ Range(cols)

selOthers == <<simVars, prepVars, infVars, featVars, pipeVars, savVars>>

SelInit ==
    /\ sel_pc = "build"
    /\ df_columns = <<>>
    /\ all_features = <<>>

\* One more column of the table
SelAddColumn ==
    /\ sel_pc = "build"
    /\ Len(df_columns) < MaxColumns
    /\ \E col \in AddableColumns(df_columns) : df_columns' = Append(df_columns, col)
    /\ UNCHANGED <<sel_pc, all_features>>
    /\ UNCHANGED selOthers

\* prepare_data_for_modeling(df) up to all_features, on a table that has rows
SelectFeatures ==
    /\ sel_pc = "build"
    /\ sel_pc' = IF selection_returns_none(df_columns) THEN "none" ELSE "selected"
    /\ all_features' = IF selection_returns_none(df_columns) THEN <<>>
                       ELSE select_features(df_columns)
    /\ UNCHANGED df_columns
    /\ UNCHANGED selOthers

SelIdle ==
    /\ sel_pc = "idle"
    /\ df_columns = <<>>
    /\ all_features = <<>>

----------------------------------------------------------------------------
\* The energy report of the Trip Simulator (simulate_complete_trip from the
\* energies to the returned savings), in the program's own arithmetic

\* Bound of the replayed trip of the report
MaxSavRows == 3

\* Input values: heater power readings (W) and time steps (s)
SavHeaterValues == {21, 1000}
SavSteps == {0, 1}

\* the literals 0.85 and 0.8: the doubles nearest to 85/100 and 8/10
Double085 == FDiv(FFromInt(ReductionFactor), FFromInt(PowerScale))
Double08 == FDiv(FFromInt(8), FFromInt(10))

\* new_heater_power of run_intelli_therm as a double: base * 0.85, or base
new_heater_power(base_heater_power, status) ==
    IF status = "reduce" THEN FMul(FFromInt(base_heater_power), Double085)
    ELSE FFromInt(base_heater_power)

\* Series.sum() of a short column: the values added one after the other
RECURSIVE series_sum(_)
series_sum(col) ==
    IF col = <<>> THEN FZero
    ELSE FAdd(series_sum(SubSeq(col, 1, Len(col) - 1)), col[Len(col)])

\* (energy_saved / baseline_energy) * 100 if baseline_energy > 0 else 0
percentage(energy_saved, baseline) ==
    IF FCmp(baseline, FZero) > 0 THEN FMul(FDiv(energy_saved, baseline), FFromInt(100))
    ELSE FZero

\* (an estimate that takes the whole saving as range)
estimated_range_improvement_whole(percentage_saved_f) == percentage_saved_f

\* percentage_saved * 0.8
estimated_range_improvement(percentage_saved_f) == FMul(percentage_saved_f, Double08)

\* heater_energy_J per row of both runs, their sums, the saving and the estimate
energy_report(df, row_statuses) ==
    LET dt(i) == FFromInt(time_diff(df, i))
        baseline_J == [i \in DOMAIN df |-> FMul(FFromInt(df[i].heater_power_W), dt(i))]
        optimized_J == [i \in DOMAIN df |->
                          FMul(new_heater_power(df[i].heater_power_W, row_statuses[i]), dt(i))]
        baseline == series_sum(baseline_J)
        optimized == series_sum(optimized_J)
        energy_saved == FSub(baseline, optimized)
        saved == percentage(energy_saved, baseline)
    IN [baseline_energy |-> baseline, optimized_energy |-> optimized,
        percentage_saved |-> saved,
        estimated_range_improvement |-> estimated_range_improvement(saved)]

NoReport == <<>>

savOthers == <<prepVars, infVars, featVars, pipeVars, selVars>>

SavInit == SimInit /\ sim_report = NoReport

\* One more row of the replayed trip: the first row at time 0, heater readings
\* that are not negative, timestamps that do not decrease
SavAddRow ==
    /\ sim_pc = "build"
    /\ Len(test_trip_df) < MaxSavRows
    /\ \E d \in (IF test_trip_df = <<>> THEN {0} ELSE SavSteps),
          h \in (IF heater_col THEN SavHeaterValues ELSE {0}) :
          LET last == IF test_trip_df = <<>> THEN 0
                      ELSE test_trip_df[Len(test_trip_df)].time_s
          IN test_trip_df' = Append(test_trip_df, [time_s |-> last + d, heater_power_W |-> h])
    /\ UNCHANGED <<sim_pc, heater_col, high_power_threshold, predicted_loads,
                   new_heater_powers, statuses, baseline_energy, optimized_energy,
                   baseline_cumulative, optimized_cumulative>>
    /\ UNCHANGED simOthers

\* The end of simulate_complete_trip: the savings it prints and returns
SimReport ==
    /\ sim_pc = "done"
    /\ sim_report' = energy_report(test_trip_df, statuses)
    /\ sim_pc' = "reported"
    /\ UNCHANGED <<heater_col, test_trip_df, high_power_threshold, predicted_loads,
                   new_heater_powers, statuses, baseline_energy, optimized_energy,
                   baseline_cumulative, optimized_cumulative>>
    /\ UNCHANGED savOthers

SavIdle == sim_report = NoReport

----------------------------------------------------------------------------
\* Specifications, one per component

InitPolicy == SimInit /\ PrepIdle /\ InfIdle /\ FeatIdle /\ PipeIdle /\ SelIdle /\ SavIdle
NextPolicy == SimAddRow \/ SimStart \/ SimReplayRow \/ SimAccount
SpecPolicy == InitPolicy /\ [][NextPolicy]_vars

InitSplit == PrepInit /\ SimIdle /\ InfIdle /\ FeatIdle /\ PipeIdle /\ SelIdle /\ SavIdle
NextSplit == PrepAddRow \/ PrepareData
SpecSplit == InitSplit /\ [][NextSplit]_vars

InitInfer == InfInit /\ SimIdle /\ PrepIdle /\ FeatIdle /\ PipeIdle /\ SelIdle /\ SavIdle
NextInfer == PrepareFeatures
SpecInfer == InitInfer /\ [][NextInfer]_vars

\* the three builders on short tables of several trips
InitFeatures == FeatInit /\ gen_base = NoStep /\ SimIdle /\ PrepIdle /\ InfIdle /\ PipeIdle /\ SelIdle /\ SavIdle
NextFeatures ==
    \/ FeatAddRow
    \/ StartRate \/ StartLag \/ StartTarget
    \/ RateTrip \/ LagTrip \/ TargetTrip
    \/ ReturnResult
SpecFeatures == InitFeatures /\ [][NextFeatures]_vars

\* the rate-of-change builder on one long trip
InitRate == FeatInit /\ gen_base \in BaseSteps /\ SimIdle /\ PrepIdle /\ InfIdle /\ PipeIdle /\ SelIdle /\ SavIdle
NextRate == LongAddRow \/ StartRate \/ RateTrip \/ ReturnResult
SpecRate == InitRate /\ [][NextRate]_vars

\* the load feature and the three builders on short tables as loaded
InitSource == FeatInit /\ gen_base = NoStep /\ SimIdle /\ PrepIdle /\ InfIdle /\ PipeIdle /\ SelIdle /\ SavIdle
NextSource ==
    \/ RawAddRow
    \/ CreateLoadFeature
    \/ StartRate \/ StartLag \/ StartTarget \/ TargetNoLoad
    \/ RateTrip \/ LagTrip \/ TargetTrip
    \/ ReturnResult
SpecSource == InitSource /\ [][NextSource]_vars

\* the rate-of-change builder on short tables that lack optional channels
InitChannels == FeatInit /\ gen_base = NoStep /\ SimIdle /\ PrepIdle /\ InfIdle /\ PipeIdle /\ SelIdle /\ SavIdle
NextChannels == ChanAddRow \/ StartRate \/ RateTrip \/ ReturnResult
SpecChannels == InitChannels /\ [][NextChannels]_vars

\* the lag builder and the target builder on sorted tables with long trips
InitSeries == FeatInit /\ gen_base = NoStep /\ SimIdle /\ PrepIdle /\ InfIdle /\ PipeIdle /\ SelIdle /\ SavIdle
NextSeries ==
    \/ SortedAddRow
    \/ StartLag \/ StartTarget
    \/ LagTrip \/ TargetTrip
    \/ ReturnResult
SpecSeries == InitSeries /\ [][NextSeries]_vars

\* the script from the trip files to the simulation
InitPipeline == PipeInit /\ PrepInit /\ SimIdle /\ InfIdle /\ FeatIdle /\ SelIdle /\ SavIdle
NextPipeline ==
    \/ PipeAddRow
    \/ PipeLoad \/ PipeFeatures \/ PipeTargets \/ PipePartition \/ PipeTrain \/ PipeSimulate
SpecPipeline == InitPipeline /\ [][NextPipeline]_vars

\* the partitioner's feature selection on tables of every column list
InitSelect == SelInit /\ SimIdle /\ PrepIdle /\ InfIdle /\ FeatIdle /\ PipeIdle /\ SavIdle
NextSelect == SelAddColumn \/ SelectFeatures
SpecSelect == InitSelect /\ [][NextSelect]_vars

\* the simulator to its report on trips with heater readings that are not negative
InitSavings == SavInit /\ PrepIdle /\ InfIdle /\ FeatIdle /\ PipeIdle /\ SelIdle
NextSavings == SavAddRow \/ SimStart \/ SimReplayRow \/ SimAccount \/ SimReport
SpecSavings == InitSavings /\ [][NextSavings]_vars

----------------------------------------------------------------------------
\* Claims about the Control Policy and the Trip Simulator (SpecPolicy)

\* C1: the policy reduces to 0.85 * baseline exactly when the predicted load
\* is strictly above the threshold and keeps the baseline otherwise (also at
\* equality); decide(100, 90, 1000) = 850/reduce, decide(50, 90, 1000) =
\* 1000/maintain.  Powers are in hundredths of a watt.
C1_DecisionRule ==
    /\ run_intelli_therm(100, 90, 1000) = [power |-> 85000, status |-> "reduce"]
    /\ run_intelli_therm(50, 90, 1000) = [power |-> 100000, status |-> "maintain"]
    /\ \A i \in DOMAIN predicted_loads :
          LET base == test_trip_df[i].heater_power_W
          IN IF predicted_loads[i] > high_power_threshold
             THEN new_heater_powers[i] = 85 * base /\ statuses[i] = "reduce"
             ELSE new_heater_powers[i] = 100 * base /\ statuses[i] = "maintain"

\* C1 witness: a replay in which one row was predicted exactly at the
\* threshold and kept its 1000 W, and another was predicted above it and got 850 W.
C1_Witness ==
    \E i, j \in DOMAIN predicted_loads :
        /\ predicted_loads[i] = high_power_threshold
        /\ test_trip_df[i].heater_power_W = 1000
        /\ new_heater_powers[i] = 100000 /\ statuses[i] = "maintain"
        /\ predicted_loads[j] > high_power_threshold
        /\ test_trip_df[j].heater_power_W = 1000
        /\ new_heater_powers[j] = 85000 /\ statuses[j] = "reduce"

NonNegativeHeater == \A i \in DOMAIN test_trip_df : test_trip_df[i].heater_power_W >= 0

\* C2 as stated: for every replayed trip the total optimized heater energy
\* is never greater than the total baseline heater energy.
C2_OptimizedNeverAboveBaseline ==
    sim_pc = "done" => optimized_energy <= baseline_energy

\* C2 amended: for every replayed trip whose heater power readings are all
\* non-negative, the total optimized heater energy is never greater than the
\* total baseline heater energy.
C2_NonNegativeHeaterNeverAboveBaseline ==
    (sim_pc = "done" /\ NonNegativeHeater) => optimized_energy <= baseline_energy

\* C2 witness: a finished replay of a trip with non-negative readings in
\* which the policy reduced a row and energy was saved.
C2_Witness ==
    /\ sim_pc = "done"
    /\ NonNegativeHeater
    /\ \E i \in DOMAIN statuses : statuses[i] = "reduce"
    /\ optimized_energy < baseline_energy

----------------------------------------------------------------------------
\* Claims about the Dataset Partitioner (SpecSplit)

HasRequiredCols == RequiredCols \subseteq prep_cols

\* the indices of the rows with no null feature and no null target
ValidIndexSet == {i \in DOMAIN prep_df : ~prep_df[i].x_null /\ ~prep_df[i].y_null}

\* the trip identifiers that have a valid row
ValidTripSet == {prep_df[i].trip_id : i \in ValidIndexSet}

StrictlyIncreasing(s) == \A i, j \in DOMAIN s : i < j => s[i] < s[j]

\* a sequence that lists exactly the valid rows, in table order
IsAllValidRows(s) == StrictlyIncreasing(s) /\ Range(s) = ValidIndexSet

\* C3: with at least 2 distinct valid trip identifiers, the train and test
\* trip-identifier sets are disjoint and their union is the set of valid
\* trip identifiers.
C3_TrainTestTripsPartition ==
    (prep_pc = "done" /\ HasRequiredCols /\ Cardinality(ValidTripSet) >= 2) =>
        /\ ~prep_out.none
        /\ Range(prep_out.train_trip_ids) \cap Range(prep_out.test_trip_ids) = {}
        /\ Range(prep_out.train_trip_ids) \cup Range(prep_out.test_trip_ids) = ValidTripSet

\* C3 witness: a split of three valid trips with trips on both sides
C3_Witness ==
    /\ prep_pc = "done"
    /\ Cardinality(ValidTripSet) = 3
    /\ Len(prep_out.train_trip_ids) = 2
    /\ Len(prep_out.test_trip_ids) = 1

\* C4 as stated: with n >= 2 valid trips, ceil(0.7 * n) trips go to train,
\* the first of the sorted identifier list, the remainder to test.
C4_TrainCountIsCeiling ==
    (prep_pc = "done" /\ HasRequiredCols /\ Cardinality(ValidTripSet) >= 2) =>
        LET n == Cardinality(ValidTripSet)
        IN /\ Len(prep_out.train_trip_ids) = (7 * n + 9) \div 10
           /\ StrictlyIncreasing(prep_out.train_trip_ids \o prep_out.test_trip_ids)
           /\ Len(prep_out.train_trip_ids) + Len(prep_out.test_trip_ids) = n

\* C4 amended: with n >= 2 valid trips, max(1, int(0.7 * n)) trips go to
\* train (0.7 * n rounded down), the first of the sorted identifier list, the
\* remainder to test.
C4_TrainCountIsFloor ==
    (prep_pc = "done" /\ HasRequiredCols /\ Cardinality(ValidTripSet) >= 2) =>
        LET n == Cardinality(ValidTripSet)
        IN /\ Len(prep_out.train_trip_ids) = (7 * n) \div 10
           /\ Len(prep_out.train_trip_ids) >= 1
           /\ StrictlyIncreasing(prep_out.train_trip_ids \o prep_out.test_trip_ids)
           /\ Len(prep_out.train_trip_ids) + Len(prep_out.test_trip_ids) = n
           /\ Range(prep_out.train_trip_ids \o prep_out.test_trip_ids) = ValidTripSet

\* C4 witness: three valid trips, two of them in train (ceil(2.1) would be 3)
C4_Witness ==
    /\ prep_pc = "done"
    /\ HasRequiredCols
    /\ Cardinality(ValidTripSet) = 3
    /\ Len(prep_out.train_trip_ids) = 2
    /\ prep_out.test_trip_ids # <<>>

\* C10 as stated: with fewer than 2 distinct valid trip identifiers the
\* partitioner returns the full set of valid rows as both train and test,
\* with identical trip-identifier lists.
C10_DegenerateSplitAlways ==
    (prep_pc = "done" /\ HasRequiredCols /\ Cardinality(ValidTripSet) < 2) =>
        /\ ~prep_out.none
        /\ IsAllValidRows(prep_out.X_train)
        /\ prep_out.X_test = prep_out.X_train
        /\ prep_out.test_trip_ids = prep_out.train_trip_ids

\* C10 amended: with exactly 1 distinct valid trip identifier the partitioner
\* returns the full set of valid rows as both train and test, with identical
\* trip-identifier lists; with no valid row at all it returns no data (None
\* for every output), it does not raise.
C10_DegenerateSplitOneTrip ==
    /\ (prep_pc = "done" /\ HasRequiredCols /\ Cardinality(ValidTripSet) = 1) =>
          /\ ~prep_out.none
          /\ IsAllValidRows(prep_out.X_train)
          /\ prep_out.X_test = prep_out.X_train
          /\ Range(prep_out.train_trip_ids) = ValidTripSet
          /\ prep_out.test_trip_ids = prep_out.train_trip_ids
    /\ (prep_pc = "done" /\ HasRequiredCols /\ Cardinality(ValidTripSet) = 0) =>
          prep_out = NoData

\* C10 witness: one valid trip with two valid rows beside an invalid row
C10_Witness ==
    /\ prep_pc = "done"
    /\ Cardinality(ValidTripSet) = 1
    /\ Cardinality(ValidIndexSet) = 2
    /\ Len(prep_df) > 2
    /\ ~prep_out.none
    /\ Len(prep_out.X_test) = 2
    /\ prep_out.X_test = prep_out.X_train

----------------------------------------------------------------------------
\* Claims about the inference feature vector (SpecInfer)

\* C9: the feature vector built at inference holds exactly the names of the
\* training feature list, in the same order, whatever channels the record has.
C9_FeatureNamesMatchTraining ==
    inf_pc = "done" =>
        [i \in DOMAIN features_df |-> features_df[i].name] = feature_list

----------------------------------------------------------------------------
\* Claims about the Target Builder and the order of the Feature Builder's rows

RidSeq(df) == [i \in DOMAIN df |-> df[i].rid]
RidSet(df) == Range(RidSeq(df))
PosOf(seq, x) == CHOOSE i \in DOMAIN seq : seq[i] = x
LongestHorizon == CHOOSE h \in Range(future_horizons) : \A g \in Range(future_horizons) : g <= h
TargetReturned == feat_op = "target" /\ feat_pc = "build" /\ processed_dfs # <<>>

\* C5: in every segment of length L the Target Builder has processed, and for
\* each configured horizon h, future_load[h] is missing in exactly the last h
\* rows (rows i > L - h); the returned table keeps a row exactly when its
\* target is present for every configured horizon, that is when i + h <= L for
\* the longest h, so a row missing the target of any horizon is dropped and no
\* returned row has a missing target.
C5_TargetDropRule ==
    /\ feat_op = "target" =>
          \A k \in DOMAIN processed_dfs : \A h \in Range(future_horizons) :
             \A i \in DOMAIN processed_dfs[k] :
                IsNull(processed_dfs[k][i].future_load[h]) <=> (i > Len(processed_dfs[k]) - h)
    /\ TargetReturned =>
          /\ \A k \in DOMAIN processed_dfs : \A i \in DOMAIN processed_dfs[k] :
                (processed_dfs[k][i].rid \in RidSet(all_trips_df))
                   <=> (i + LongestHorizon <= Len(processed_dfs[k]))
          /\ \A i \in DOMAIN all_trips_df : \A h \in Range(future_horizons) :
                ~IsNull(all_trips_df[i].future_load[h])
          /\ Len(all_trips_df) = Cardinality(RidSet(all_trips_df))

\* a returned table that kept a row and dropped a row whose target is present
\* for horizon 1 and missing for horizon 2
C5_Witness ==
    /\ TargetReturned
    /\ all_trips_df # <<>>
    /\ future_horizons = <<1, 2>>
    /\ \E k \in DOMAIN processed_dfs : \E i \in DOMAIN processed_dfs[k] :
          /\ ~IsNull(processed_dfs[k][i].future_load[1])
          /\ IsNull(processed_dfs[k][i].future_load[2])
          /\ processed_dfs[k][i].rid \notin RidSet(all_trips_df)

\* the rows of a trip in the output are the rows of the trip in the input, each
\* once, by non-decreasing time, rows of equal time in their input order
ChronologicalStable(in, out) ==
    /\ Len(out) = Len(in)
    /\ RidSet(out) = RidSet(in)
    /\ \A i \in 1..(Len(out) - 1) :
          \/ out[i].time_s < out[i + 1].time_s
          \/ /\ out[i].time_s = out[i + 1].time_s
             /\ PosOf(RidSeq(in), out[i].rid) < PosOf(RidSeq(in), out[i + 1].rid)

\* C8: when a Feature Builder operation (rate-of-change, lag) has returned, the
\* rows of every trip appear in the output in the chronological order of the
\* input segment, rows of equal timestamp keeping their input order, and no
\* row of a segment is lost or duplicated.
C8_WithinSegmentOrder ==
    (feat_pc = "build" /\ feat_op \in {"rate", "lag"}) =>
       \A t \in TripIdValues :
          ChronologicalStable(TripRows(df_model, t), TripRows(all_trips_df, t))

----------------------------------------------------------------------------
\* Claims about the rate-of-change features

Col(seg, name) == [i \in DOMAIN seg |-> seg[i][name]]

\* the two rate-of-change features: the column np.where computed, the output column
RateFeatures ==
    {[raw |-> "acceleration_unclipped", out |-> "acceleration_ms2"],
     [raw |-> "throttle_rate_unclipped", out |-> "throttle_change_rate"]}

RateReturned == feat_op = "rate" /\ feat_pc = "build" /\ processed_dfs # <<>>

\* the time difference to the previous row of the segment is 0 or missing
NoTimeStep(r) == IsNull(r.time_diff) \/ Val(r.time_diff) = 0

\* C6 as stated: in the output of the rate-of-change builder, a row whose time
\* difference to the previous row of its segment is 0 or missing has
\* acceleration exactly 0 and throttle_change_rate exactly 0.
C6_ZeroGuardInOutput ==
    RateReturned =>
       \A i \in DOMAIN all_trips_df :
          NoTimeStep(all_trips_df[i]) =>
             /\ all_trips_df[i].acceleration_ms2 = 0
             /\ all_trips_df[i].throttle_change_rate = 0

\* C6, amended: for a row whose time difference to the previous row of its
\* segment is 0 or missing, the rate the guard computes is exactly 0, and the
\* output value is that 0 after the segment's 3-sigma clip: 0 itself, or the
\* segment's finite clip bound when 0 lies beyond it.
C6_ZeroGuardBeforeClip ==
    feat_op = "rate" =>
       \A k \in DOMAIN processed_dfs : \A f \in RateFeatures :
          \A i \in DOMAIN processed_dfs[k] :
             NoTimeStep(processed_dfs[k][i]) =>
                /\ processed_dfs[k][i][f.raw] = 0
                /\ IF std_positive(Col(processed_dfs[k], f.raw))
                   THEN processed_dfs[k][i][f.out] \in
                           {0, lower_bound(Col(processed_dfs[k], f.raw)),
                               upper_bound(Col(processed_dfs[k], f.raw))}
                   ELSE processed_dfs[k][i][f.out] = 0

\* a returned table with a row at the time of the row before it whose speed
\* and throttle differ from that row's
C6_Witness ==
    /\ RateReturned
    /\ \E i \in DOMAIN all_trips_df :
          /\ ~IsNull(all_trips_df[i].time_diff)
          /\ Val(all_trips_df[i].time_diff) = 0
          /\ Val(all_trips_df[i].speed_diff) # 0
          /\ Val(all_trips_df[i].throttle_change) # 0

\* C7 as stated: no output value of a rate-of-change feature lies outside
\* mean +/- 3 * std of the feature's output values in its segment.  The bounds
\* are widened by one hundredth each way, so that a violation is never an
\* effect of rounding.
C7_WithinRecomputedBounds ==
    feat_op = "rate" =>
       \A k \in DOMAIN processed_dfs : \A f \in RateFeatures :
          std_positive(Col(processed_dfs[k], f.out)) =>
             \A i \in DOMAIN processed_dfs[k] :
                /\ processed_dfs[k][i][f.out] >= lower_bound(Col(processed_dfs[k], f.out)) - 1
                /\ processed_dfs[k][i][f.out] <= upper_bound(Col(processed_dfs[k], f.out)) + 1

\* C7, amended: no output value of a rate-of-change feature lies outside
\* mean +/- 3 * std of the values the feature had in its segment before the
\* clip; a value within these bounds is unchanged, a value beyond a bound is
\* that bound, and a segment whose standard deviation is zero or missing is
\* unchanged.
C7_WithinBoundsBeforeClip ==
    feat_op = "rate" =>
       \A k \in DOMAIN processed_dfs : \A f \in RateFeatures :
          LET raw == Col(processed_dfs[k], f.raw)
              out == Col(processed_dfs[k], f.out)
          IN IF std_positive(raw)
             THEN \A i \in DOMAIN out :
                     /\ out[i] >= lower_bound(raw)
                     /\ out[i] <= upper_bound(raw)
                     /\ (raw[i] > upper_bound(raw)) => (out[i] = upper_bound(raw))
                     /\ (raw[i] < lower_bound(raw)) => (out[i] = lower_bound(raw))
                     /\ (raw[i] >= lower_bound(raw) /\ raw[i] <= upper_bound(raw))
                           => (out[i] = raw[i])
             ELSE out = raw

\* a returned table in which the clip raised an acceleration to the lower
\* bound, and one in which it lowered an acceleration to the upper bound
C7_Witness ==
    /\ RateReturned
    /\ \E i \in DOMAIN all_trips_df :
          all_trips_df[i].acceleration_ms2 > all_trips_df[i].acceleration_unclipped

C7_WitnessUpper ==
    /\ RateReturned
    /\ \E i \in DOMAIN all_trips_df :
          all_trips_df[i].acceleration_ms2 < all_trips_df[i].acceleration_unclipped

----------------------------------------------------------------------------
\* Claims about the pipeline (SpecPipeline)

SimulationRan == "simulation" \in Range(stages)

C12_TrainingFailureHaltsSimulation ==
    /\ SimulationRan =>
          /\ stages = <<"feature_builder", "target_builder", "partitioner",
                        "training", "simulation">>
          /\ model = "model"
          /\ ~prep_out.none
    /\ percentage_saved # "undefined" => SimulationRan
    /\ (pipe_pc = "end" /\ (prep_out.none \/ model # "model")) =>
          /\ ~SimulationRan
          /\ percentage_saved = "undefined"

\* a run that ended after a fit that failed on a table with 2 valid trips
C12_Witness ==
    /\ pipe_pc = "end"
    /\ stages = <<"feature_builder", "target_builder", "partitioner", "training">>
    /\ model = "None"
    /\ Len(valid_trip_ids(prep_df)) = 2
    /\ percentage_saved = "undefined"

----------------------------------------------------------------------------
\* Claims about the tables the feature and target operations are given (SpecSource)

\* C13: when a feature or target operation (load feature, rate-of-change
\* features, lag features, target variables) has returned, the table it was
\* given is as it was at the call: same columns, same rows, same values.
C13_SourceNotMutated ==
    (feat_pc = "build" /\ feat_op # "none") => source_df = df_model

\* no operation changes the rows of the table it was given or their order:
\* what an operation may leave behind in the table is a new column
C13_SourceRowsKept ==
    (feat_pc = "build" /\ feat_op # "none") =>
       /\ Len(source_df) = Len(df_model)
       /\ \A i \in DOMAIN source_df : \A c \in DOMAIN df_model[i] :
             c \in DOMAIN source_df[i] /\ source_df[i][c] = df_model[i][c]

----------------------------------------------------------------------------
\* Claims about tables that lack optional channels (SpecChannels)

\* C14: on a table with trip id and time that lacks any of the optional
\* channels (speed, throttle), the rate-of-change builder does not fail, and
\* its result has acceleration exactly when the table has the speed and
\* throttle_change_rate exactly when the table has the throttle.
C14_MissingChannelNotFatal ==
    feat_op = "rate" =>
       /\ feat_pc # "raised"
       /\ feat_pc = "build" =>
             \A i \in DOMAIN all_trips_df :
                /\ ("acceleration_ms2" \in DOMAIN all_trips_df[i])
                      <=> ("speed_kmh" \in DOMAIN all_trips_df[i])
                /\ ("throttle_change_rate" \in DOMAIN all_trips_df[i])
                      <=> ("throttle_pedal" \in DOMAIN all_trips_df[i])

\* the builder fails on no table that has the speed or lacks the throttle
C14_FailsOnlyWithoutSpeed ==
    feat_pc = "raised" =>
       \A i \in DOMAIN df_model :
          "speed_kmh" \notin DOMAIN df_model[i] /\ "throttle_pedal" \in DOMAIN df_model[i]

----------------------------------------------------------------------------
\* Claims about lags and targets on sorted tables with long trips (SpecSeries)

LagReturned == feat_op = "lag" /\ feat_pc = "build" /\ processed_dfs # <<>>

\* the offsets for which the row at position i of a segment has no row i - k
BackfilledLags(i) == {k \in Range(lag_periods) : i <= k}

\* C15: in every segment the lag builder has processed, for every lagged
\* feature and lag offset k, the lag of the row at position i > k (counting
\* from 1; i >= k counting from 0) is the feature's value in the row at
\* position i - k of the segment; the rows of a segment are the rows of one
\* trip, and every lag value present is a value of the feature in a row of
\* that segment.
C15_LagWithinSegment ==
    feat_op = "lag" =>
       \A s \in DOMAIN processed_dfs :
          LET seg == processed_dfs[s]
          IN /\ \A i \in DOMAIN seg : seg[i].trip_id = trip_ids[s]
             /\ \A f \in lag_features(seg) : \A k \in Range(lag_periods) :
                \A i \in DOMAIN seg :
                   /\ i > k => seg[i].lags[<<f, k>>] = Some(seg[i - k][f])
                   /\ ~IsNull(seg[i].lags[<<f, k>>]) =>
                         \E j \in DOMAIN seg : seg[j][f] = Val(seg[i].lags[<<f, k>>])

\* a returned table of two trips, one of them long enough for the row at
\* position 6 to take its lag 5 from the row at position 1
C15_Witness ==
    /\ LagReturned
    /\ Len(processed_dfs) = 2
    /\ \E s \in DOMAIN processed_dfs :
          /\ Len(processed_dfs[s]) >= 6
          /\ processed_dfs[s][6].lags[<<"powertrain_load_W", 5>>]
                = Some(processed_dfs[s][1].powertrain_load_W)

\* a returned table of one trip long enough for lag 10
C15_WitnessLongestLag ==
    /\ LagReturned
    /\ \E s \in DOMAIN processed_dfs :
          /\ Len(processed_dfs[s]) >= 11
          /\ processed_dfs[s][11].lags[<<"powertrain_load_W", 10>>]
                = Some(processed_dfs[s][1].powertrain_load_W)

\* C16: in every segment the lag builder has processed, of any length, no
\* row has a missing lag value for any lag offset.
C16_LagFullyPopulated ==
    feat_op = "lag" =>
       \A s \in DOMAIN processed_dfs : \A i \in DOMAIN processed_dfs[s] :
          \A c \in DOMAIN processed_dfs[s][i].lags :
             ~IsNull(processed_dfs[s][i].lags[c])

\* the lag values are missing only in segments not longer than the offset,
\* and there in every row
C16_MissingOnlyInShortSegments ==
    feat_op = "lag" =>
       \A s \in DOMAIN processed_dfs : \A i \in DOMAIN processed_dfs[s] :
          \A c \in DOMAIN processed_dfs[s][i].lags :
             IsNull(processed_dfs[s][i].lags[c]) <=> (Len(processed_dfs[s]) <= c[2])

\* C17: every row of the table the target builder returns is the row at some
\* position i of a processed segment with, for each configured horizon h, a
\* row at position i + h in the segment, of the same trip, whose load is the
\* row's future_load[h].
C17_TargetAlignment ==
    TargetReturned =>
       \A j \in DOMAIN all_trips_df :
          \E s \in DOMAIN processed_dfs : \E i \in DOMAIN processed_dfs[s] :
             LET seg == processed_dfs[s]
             IN /\ seg[i] = all_trips_df[j]
                /\ \A h \in Range(future_horizons) :
                      /\ i + h <= Len(seg)
                      /\ seg[i + h].trip_id = all_trips_df[j].trip_id
                      /\ all_trips_df[j].future_load[h] = Some(seg[i + h].powertrain_load_W)

\* a returned table with rows left for the horizons 5 and 10
C17_Witness ==
    /\ TargetReturned
    /\ future_horizons = <<5, 10>>
    /\ all_trips_df # <<>>

\* a returned table with rows of two trips left
C17_WitnessTwoTrips ==
    /\ TargetReturned
    /\ \E i, j \in DOMAIN all_trips_df : all_trips_df[i].trip_id # all_trips_df[j].trip_id

\* C18: after the lag builder and then the target builder, the table returned
\* holds no row whose lag columns were back-filled, that is no row at a
\* position i <= k of its segment for a lag offset k.
C18_BackfilledRowsDropped ==
    TargetReturned =>
       \A s \in DOMAIN processed_dfs : \A i \in DOMAIN processed_dfs[s] :
          ("lags" \in DOMAIN processed_dfs[s][i]
             /\ processed_dfs[s][i].rid \in RidSet(all_trips_df))
          => BackfilledLags(i) = {}

----------------------------------------------------------------------------
\* Claims about lag features at inference (SpecInfer)

\* the values the vector built holds for a feature name
ValuesOf(feature) == {features_df[i].value : i \in {j \in DOMAIN features_df : features_df[j].name = feature}}

LagFeaturesListed == {f \in Range(feature_list) : has_lag(f)}

\* C19 as stated: for every lag feature of the training feature list, the
\* value handed to the model is the record's current value of the base feature.
C19_LagUsesCurrentValue ==
    inf_pc = "done" =>
       \A f \in LagFeaturesListed : ValuesOf(f) = {ChannelValue(split_lag(f))}

\* C19, amended: for every lag feature of the training feature list, the
\* value handed to the model is the record's own value of the lag column when
\* the record has that column; it is the record's current value of the base
\* feature only when the record lacks the lag column and has the base
\* feature; a record with neither gives the feature no value.
C19_LagUsesStoredLagFirst ==
    inf_pc = "done" =>
       \A f \in LagFeaturesListed :
          ValuesOf(f) =
             IF f \in vehicle_data THEN {ChannelValue(f)}
             ELSE IF split_lag(f) \in vehicle_data THEN {ChannelValue(split_lag(f))}
             ELSE {}

\* a vector built for a record that has a listed lag column and its base
C19_Witness ==
    /\ inf_pc = "done"
    /\ \E f \in LagFeaturesListed :
          /\ f \in vehicle_data
          /\ split_lag(f) \in vehicle_data
          /\ ValuesOf(f) # {ChannelValue(split_lag(f))}

----------------------------------------------------------------------------
\* Claims about the energy accounting (SpecPolicy)

\* the energy increment of row j that a running sum holds
Increment(cumulative, j) == cumulative[j] - (IF j = 1 THEN 0 ELSE cumulative[j - 1])

\* the time from the previous replayed row, 0 for the first row
DeltaTime(j) == IF j = 1 THEN 0 ELSE test_trip_df[j].time_s - test_trip_df[j - 1].time_s

----------------------------------------------------------------------------
\* Claims about the Partitioner's feature selection (SpecSelect)

\* the channels the partitioner asks for by name
WishChannels ==
    {"powertrain_load_W", "speed_kmh", "acceleration_ms2", "throttle_pedal_%",
     "ambient_temperature_C", "heater_power_W", "throttle_change_rate"}

PresentChannels == WishChannels \cap Range(df_columns)

\* C21 (as stated): the recorded feature list is the wished channels present in
\* the table plus every lag column of those channels the table has, whatever
\* the lag offset (lag 10 included), and names only columns of the table.
C21_AllLagVariantsSelected ==
    sel_pc = "selected" =>
        /\ Range(all_features) =
              PresentChannels \cup (LagColumns(PresentChannels) \cap Range(df_columns))
        /\ Range(all_features) \subseteq Range(df_columns)

\* C21 (amended): the recorded feature list is the wished channels present in
\* the table plus the lag columns of those channels the table has for the
\* offsets 1, 2, 3 and 5 only; a lag-10 column is never selected; the channels
\* come before the lag columns; every name is a column of the table.
C21_ListedLagVariantsSelected ==
    sel_pc = "selected" =>
        LET listed == {lag_col(f, k) : f \in PresentChannels, k \in {1, 2, 3, 5}}
        IN /\ Range(all_features) = PresentChannels \cup (listed \cap Range(df_columns))
           /\ Range(all_features) \subseteq Range(df_columns)
           /\ \A i, j \in DOMAIN all_features :
                 (all_features[i] \in PresentChannels /\ all_features[j] \notin PresentChannels)
                    => i < j

\* a table with a lag-1 and a lag-10 column of the load: the first is selected
C21_Witness ==
    /\ sel_pc = "selected"
    /\ "powertrain_load_W_lag1" \in Range(all_features)
    /\ "powertrain_load_W_lag10" \in Range(df_columns)

----------------------------------------------------------------------------
\* Claims about the row-level partition (SpecSplit)

RowTrip(i) == prep_df[i].trip_id
RowValid(i) == ~prep_df[i].x_null /\ ~prep_df[i].y_null
InTrain(i) == i \in Range(prep_out.X_train)
InTest(i) == i \in Range(prep_out.X_test)

\* C22: with at least 2 valid trips, a row with no null feature and no null
\* target is in exactly one of train and test, the one its trip was assigned
\* to; a row with a null feature or a null target is in neither; no trip has
\* rows in both; no row is repeated.
C22_RowsFollowTrips ==
    (prep_pc = "done" /\ HasRequiredCols /\ Cardinality(ValidTripSet) >= 2) =>
        /\ \A i \in DOMAIN prep_df :
              /\ RowValid(i) => /\ InTrain(i) <=> RowTrip(i) \in Range(prep_out.train_trip_ids)
                                /\ InTest(i) <=> RowTrip(i) \in Range(prep_out.test_trip_ids)
                                /\ InTrain(i) # InTest(i)
              /\ ~RowValid(i) => ~InTrain(i) /\ ~InTest(i)
        /\ \A i, j \in DOMAIN prep_df : (InTrain(i) /\ InTest(j)) => RowTrip(i) # RowTrip(j)
        /\ Range(prep_out.X_train) \cup Range(prep_out.X_test) \subseteq DOMAIN prep_df
        /\ StrictlyIncreasing(prep_out.X_train)
        /\ StrictlyIncreasing(prep_out.X_test)

\* a split with rows on both sides of a table in which a train trip has a row
\* with a null
C22_Witness ==
    /\ prep_pc = "done"
    /\ HasRequiredCols
    /\ Cardinality(ValidTripSet) >= 2
    /\ prep_out.X_train # <<>>
    /\ prep_out.X_test # <<>>
    /\ \E i \in DOMAIN prep_df :
          ~RowValid(i) /\ RowTrip(i) \in Range(prep_out.train_trip_ids)

----------------------------------------------------------------------------
\* Claims about the independence of the segments (SpecSource)

\* the rows of one trip, in table order
SegmentOf(df, t) == SelectSeq(df, LAMBDA r : r.trip_id = t)

\* what a builder may compute for a trip when the table holds that trip alone
\* (the sort of rows with equal time may return them in any order)
AloneOutcomes(op, t) ==
    LET alone == SegmentOf(source_df, t)
    IN IF alone = <<>> THEN {<<>>}
       ELSE CASE op = "rate" -> {rate_of_change_trip(s) : s \in sort_values(alone)}
              [] op = "lag" -> {lagged_trip(s) : s \in sort_values(alone)}
              [] op = "target" ->
                    {target_trip(s, future_horizons) : s \in sort_values(alone)}

\* a builder's loop is running or has returned
BuilderRan ==
    /\ feat_op \in {"rate", "lag", "target"}
    /\ feat_pc \in {"loop", "build"}
    /\ trip_ids # <<>>

\* C23: what the rate-of-change, lag and target builders compute for the rows
\* of a trip is what they compute for that trip alone, whatever the other
\* trips hold and wherever the trip stands in the table and in the loop: each
\* per-trip table of the loop, and each trip's rows of the returned table (in
\* their order), are an outcome of the builder on the trip alone (for the
\* targets, less the rows without a target).
C23_SegmentsIndependent ==
    BuilderRan =>
        /\ \A k \in DOMAIN processed_dfs : processed_dfs[k] \in AloneOutcomes(feat_op, trip_ids[k])
        /\ feat_pc = "build" =>
              \A t \in TripIdValues :
                 \E alone \in AloneOutcomes(feat_op, t) :
                    SegmentOf(all_trips_df, t) =
                       IF feat_op = "target" THEN dropna(alone, future_horizons) ELSE alone

\* the rate-of-change builder has returned for a table in which the rows of
\* one trip lie on both sides of a row of another trip: the result has the
\* trip's two rows together, the second with an acceleration
C23_Witness ==
    /\ BuilderRan
    /\ feat_pc = "build"
    /\ feat_op = "rate"
    /\ Len(source_df) = 3
    /\ source_df[1].trip_id = source_df[3].trip_id
    /\ source_df[1].trip_id # source_df[2].trip_id
    /\ Len(all_trips_df) = 3
    /\ all_trips_df[1].trip_id = all_trips_df[2].trip_id
    /\ all_trips_df[2].acceleration_ms2 # 0

\* the lag builder has returned for a table of two trips that the
\* rate-of-change builder had returned
C23_WitnessLag ==
    /\ BuilderRan
    /\ feat_pc = "build"
    /\ feat_op = "lag"
    /\ "acceleration_ms2" \in DOMAIN source_df[1]
    /\ Cardinality({source_df[i].trip_id : i \in DOMAIN source_df}) = 2
    /\ Len(all_trips_df) = 3

----------------------------------------------------------------------------
\* Claims about the policy across the rows of a replay (SpecPolicy)

\* the rows the replay loop has decided
Decided == DOMAIN predicted_loads

\* what the loop recorded for row j
Decision(j) == <<new_heater_powers[j], statuses[j]>>

\* the inputs of the decision for row j
DecisionInputs(j) == <<predicted_loads[j], test_trip_df[j].heater_power_W>>

\* the decision for a row is a function of the row's inputs and the threshold
\* in force: rows with equal inputs have equal decisions, a row is reduced
\* exactly when its own prediction exceeds the threshold, and a row that is
\* not reduced keeps its own baseline power
RowwiseDecision ==
    /\ \A i, j \in Decided : DecisionInputs(i) = DecisionInputs(j) => Decision(i) = Decision(j)
    /\ \A j \in Decided :
          /\ statuses[j] = "reduce" <=> predicted_loads[j] > high_power_threshold
          /\ statuses[j] = "maintain" =>
                new_heater_powers[j] = test_trip_df[j].heater_power_W * PowerScale

\* a step of the replay keeps the threshold, the replayed rows and the
\* decisions already taken
ReplayStepKeepsContext ==
    sim_pc = "replay" =>
        /\ high_power_threshold' = high_power_threshold
        /\ test_trip_df' = test_trip_df
        /\ \A j \in Decided :
              /\ j \in DOMAIN predicted_loads'
              /\ predicted_loads'[j] = predicted_loads[j]
              /\ new_heater_powers'[j] = new_heater_powers[j]
              /\ statuses'[j] = statuses[j]

\* C24: in every replay the heater setting and the status of a row depend on
\* that row's predicted load, the threshold and that row's baseline heater
\* power only, never on the decisions taken for earlier rows, and the
\* threshold stays the same from the first replayed row to the last.
C24_StatelessPolicy == [](RowwiseDecision) /\ [][ReplayStepKeepsContext]_vars

\* a replay in which a maintained row follows a reduced row of the same
\* non-zero baseline power, and a reduced row follows the maintained one
C24_Witness ==
    /\ sim_pc = "done"
    /\ Len(statuses) = 3
    /\ statuses[1] = "reduce"
    /\ statuses[2] = "maintain"
    /\ statuses[3] = "reduce"
    /\ test_trip_df[1].heater_power_W = test_trip_df[2].heater_power_W
    /\ test_trip_df[1].heater_power_W # 0

----------------------------------------------------------------------------
\* Claims about the split index and the simulator's fallback (SpecPipeline)

\* Bound of the trip counts the split index is computed for
MaxSplitTrips == 60

\* C25: for every number n >= 2 of distinct valid trips the split index is at
\* least 1 and strictly less than n, so a split of 2 or more valid trips has a
\* test trip; and a run that reaches the simulation hands the simulator a
\* test trip list that is not empty, so the replayed trip is taken from the
\* list and never from the hard-coded fallback.
C25_FallbackNeverTaken ==
    /\ \A n \in 2..MaxSplitTrips : split_idx(n) >= 1 /\ split_idx(n) < n
    /\ (prep_pc = "done" /\ ~prep_out.none /\ Cardinality(ValidTripSet) >= 2) =>
          /\ Len(prep_out.train_trip_ids) < Cardinality(ValidTripSet)
          /\ prep_out.test_trip_ids # <<>>
    /\ SimulationRan =>
          /\ prep_out.test_trip_ids # <<>>
          /\ test_trip_id \in Range(prep_out.test_trip_ids)

\* a simulation after a split of 2 or more valid trips, on a trip other than
\* the fallback's
C25_Witness ==
    /\ SimulationRan
    /\ Cardinality(ValidTripSet) >= 2
    /\ test_trip_id # FallbackTripId
    /\ test_trip_id \in Range(prep_out.test_trip_ids)

----------------------------------------------------------------------------
\* Claims about the reported savings (SpecSavings)

Reported == sim_pc = "reported"

\* the doubles 15 and 12, and the doubles 2^-20 above them
Fifteen == FFromInt(15)
Twelve == FFromInt(12)
JustAboveFifteen == FRound(0, BigFromInt(15 * 2^20 + 1), -20)
JustAboveTwelve == FRound(0, BigFromInt(12 * 2^20 + 1), -20)

C26_WitnessMixed ==
    /\ Reported
    /\ NonNegativeHeater
    /\ FCmp(sim_report.percentage_saved, FZero) > 0
    /\ FCmp(sim_report.percentage_saved, FFromInt(14)) < 0

----------------------------------------------------------------------------
\* Claims about the back-filled lag values (SpecSeries)

\* the position a lag value of the row at position i comes from
LagSourcePosition(i, k) == Max(1, i - k)

\* C27: in every segment the lag builder has processed that is longer than
\* the lag offset k (the base features of these tables have no missing
\* values), the lag value of each of the first k rows is the feature's value
\* in the first row of the segment, and the lag value of every row i is the
\* feature's value in the row at position max(1, i - k) of the same segment:
\* a position not after i, so no lag value comes from a later row.
C27_BackfillTakesFirstRow ==
    feat_op = "lag" =>
       \A s \in DOMAIN processed_dfs :
          LET seg == processed_dfs[s]
          IN \A f \in lag_features(seg) : \A k \in Range(lag_periods) :
                Len(seg) > k =>
                   \A i \in DOMAIN seg :
                      /\ i <= k => seg[i].lags[<<f, k>>] = Some(seg[1][f])
                      /\ LagSourcePosition(i, k) <= i
                      /\ seg[i].lags[<<f, k>>] = Some(seg[LagSourcePosition(i, k)][f])

\* a returned table with a segment longer than 3 rows whose first three rows
\* carry the first row's load as lag 3, a load no later row of the segment has
C27_Witness ==
    /\ LagReturned
    /\ \E s \in DOMAIN processed_dfs :
          LET seg == processed_dfs[s]
          IN /\ Len(seg) > 3
             /\ \A i \in 1..3 : seg[i].lags[<<"powertrain_load_W", 3>>]
                                   = Some(seg[1].powertrain_load_W)
             /\ \A j \in 2..Len(seg) : seg[j].powertrain_load_W # seg[1].powertrain_load_W

====
